---------------------------- MODULE Spec2Model ----------------------------
(***************************************************************************)
(* A model of the openbbox capture core:                                   *)
(*   - the unified diff parsers (core/diff_parser.py, git_observer.py),    *)
(*   - GitDiffCapture.get_combined_diff over a small repository,           *)
(*   - TemporalMatcher (core/matcher.py): pending queue, history, flush,   *)
(*   - PTYWrapper (adapters/pty_wrapper.py): relay loop and segmentation.  *)
(*                                                                         *)
(* Text is modelled as a sequence of lines, a line as a sequence of        *)
(* tokens (short strings); "\n".join and split("\n") are the identity on   *)
(* this representation because no token holds a line break.                *)
(***************************************************************************)
EXTENDS Integers, Sequences, FiniteSets, TLC

VARIABLES
    \* ---- parser harness
    textA, textB, parsePhase, parseOut,
    \* ---- title harness
    titlePrompt, titlePhase, titleOut,
    \* ---- repository and GitDiffCapture harness
    repo, gitCall, gitResult, gitRaised,
    \* ---- TemporalMatcher
    pending, history, now, returned, scores, lastFlush, nAdded, nChanged,
    added, allReturned, everChanged, lastFailure,
    \* ---- TemporalMatcher.flush split into interpreter steps (threads)
    fpc, fcap, fnow, fidx, fnodes, pidx, pacc, duringPrune,
    \* ---- PTYWrapper
    ppc, termAttrs, preAttrs, old_settings, output_buffer, current_prompt,
    last_prompt_time, emitted, ptyNow, typed, rawSince, capturedAt, lastStep,
    exitStatus, exitCause, nEvents,
    \* ---- PTYWrapper: the descriptors, the child and the relayed bytes
    command_found, master_open, child, waitStatus, termSize, ptySize,
    nResizes, fromChild, toTerminal, fromUser, toChild, platform_system

parseVars == <<textA, textB, parsePhase, parseOut>>
titleVars == <<titlePrompt, titlePhase, titleOut>>
gitVars == <<repo, gitCall, gitResult, gitRaised>>
matcherVars == <<pending, history, now, returned, scores, lastFlush, nAdded,
                 nChanged, added, allReturned, everChanged, lastFailure>>
flushVars == <<fpc, fcap, fnow, fidx, fnodes, pidx, pacc, duringPrune>>
ptyVars == <<ppc, termAttrs, preAttrs, old_settings, output_buffer,
             current_prompt, last_prompt_time, emitted, ptyNow, typed,
             rawSince, capturedAt, lastStep, exitStatus, exitCause, nEvents,
             command_found, master_open, child, waitStatus, termSize,
             ptySize, nResizes, fromChild, toTerminal, fromUser, toChild,
             platform_system>>
vars == <<parseVars, titleVars, gitVars, matcherVars, flushVars, ptyVars>>

----------------------------------------------------------------------------
(* Generic helpers                                                         *)

Range(s) == {s[i] : i \in DOMAIN s}

RECURSIVE Concat(_)
\* Flattening of a sequence of sequences.
Concat(ss) == IF ss = <<>> THEN <<>> ELSE Head(ss) \o Concat(Tail(ss))

Max(a, b) == IF a >= b THEN a ELSE b

----------------------------------------------------------------------------
(* Unified diff parser                                                     *)

\* str.startswith on the first token of a line.
StartsWith(line, toks) == Len(line) > 0 /\ line[1] \in toks

\* line.startswith(("@@", "+", "-", " "))
IsHunkLine(line) == StartsWith(line, {"@@", "+", "-", " "})

\* line.startswith("diff --git")
IsMarker(line) == StartsWith(line, {"diff --git"})

\* raw_diff.strip() is empty: every line holds only white space.
IsBlankText(text) ==
    \A i \in DOMAIN text : \A j \in DOMAIN text[i] : text[i][j] = " "

\* core: re.search(r"b/(.+)$", line); group(1) or "".
CorePath(line) ==
    LET hits == {i \in 1..(Len(line) - 1) : line[i] = "b/"}
    IN IF hits = {} THEN <<>>
       ELSE LET i == CHOOSE k \in hits : \A m \in hits : k <= m
            IN SubSeq(line, i + 1, Len(line))

\* observer: line.split(" b/", 1); parts[1] if len(parts) > 1 else "".
ObserverPath(line) ==
    LET hits == {i \in 1..(Len(line) - 1) : line[i] = " " /\ line[i + 1] = "b/"}
    IN IF hits = {} THEN <<>>
       ELSE LET i == CHOOSE k \in hits : \A m \in hits : k <= m
            IN SubSeq(line, i + 2, Len(line))

FileDiff(path, hunk, kind) ==
    [file_path |-> path, hunk |-> hunk, change_type |-> kind]

ParseStart ==
    [results |-> <<>>, current_file |-> <<>>, current_lines |-> <<>>,
     change_type |-> "modified"]

\* Mutant: a file is emitted whether or not it gathered a hunk line.
CloseFile_EmitEmpty(st) ==
    IF st.current_file # <<>>
    THEN Append(st.results,
                FileDiff(st.current_file, st.current_lines, st.change_type))
    ELSE st.results

\* "if current_file and current_lines: results.append(FileDiff(...))"
CloseFile(st) ==
    IF st.current_file # <<>> /\ st.current_lines # <<>>
    THEN Append(st.results,
                FileDiff(st.current_file, st.current_lines, st.change_type))
    ELSE st.results

\* Mutant: a marker opens its file without resetting the kind, and a
\* hunk line is gathered whether or not a file is open.
ParseLine_NoSectionScope(impl, st, line) ==
    IF IsMarker(line)
    THEN [results |-> CloseFile(st),
          current_file |-> IF impl = "core" THEN CorePath(line)
                           ELSE ObserverPath(line),
          current_lines |-> IF st.current_file = <<>> THEN st.current_lines
                            ELSE <<>>,
          change_type |-> IF st.current_file = <<>> THEN st.change_type
                          ELSE "modified"]
    ELSE IF StartsWith(line, {"new file"})
    THEN [st EXCEPT !.change_type = "added"]
    ELSE IF StartsWith(line, {"deleted file"})
    THEN [st EXCEPT !.change_type = "deleted"]
    ELSE IF StartsWith(line, IF impl = "core" THEN {"rename from"}
                             ELSE {"rename from", "rename to"})
    THEN [st EXCEPT !.change_type = "renamed"]
    ELSE IF IsHunkLine(line)
    THEN [st EXCEPT !.current_lines = Append(@, line)]
    ELSE st

\* One iteration of the line loop; impl is "core" or "observer".
ParseLine(impl, st, line) ==
    IF IsMarker(line)
    THEN [results |-> CloseFile(st),
          current_file |-> IF impl = "core" THEN CorePath(line)
                           ELSE ObserverPath(line),
          current_lines |-> <<>>,
          change_type |-> "modified"]
    ELSE IF StartsWith(line, {"new file"})
    THEN [st EXCEPT !.change_type = "added"]
    ELSE IF StartsWith(line, {"deleted file"})
    THEN [st EXCEPT !.change_type = "deleted"]
    ELSE IF StartsWith(line, IF impl = "core" THEN {"rename from"}
                             ELSE {"rename from", "rename to"})
    THEN [st EXCEPT !.change_type = "renamed"]
    ELSE IF IsHunkLine(line) /\ st.current_file # <<>>
    THEN [st EXCEPT !.current_lines = Append(@, line)]
    ELSE st

\* Mutant: a marker does not empty the lines gathered for the last file.
ParseStep_KeepLines(impl, st, line) ==
    IF IsMarker(line)
    THEN [ParseLine(impl, st, line) EXCEPT !.current_lines = st.current_lines]
    ELSE ParseLine(impl, st, line)

\* "for line in raw_diff.split("\n")", one line at a time
ParseStep(impl, st, line) == ParseLine(impl, st, line)

RECURSIVE ParseLoop(_, _, _)
ParseLoop(impl, st, text) ==
    IF text = <<>> THEN st
    ELSE ParseLoop(impl, ParseStep(impl, st, Head(text)), Tail(text))

\* Mutant: the file still open at the end of the input is forgotten.
ParseWith_DropLast(impl, text) ==
    IF IsBlankText(text) THEN <<>>
    ELSE ParseLoop(impl, ParseStart, text).results

ParseWith(impl, text) ==
    IF IsBlankText(text) THEN <<>>
    ELSE CloseFile(ParseLoop(impl, ParseStart, text))

\* core.diff_parser.parse_unified_diff
parse_unified_diff(text) == ParseWith("core", text)

\* GitDiffCapture._parse_unified_diff
GitDiffCapture_parse_unified_diff(text) == ParseWith("observer", text)

\* a + "\n" + b, as get_combined_diff joins its two raw texts.
JoinTexts(a, b) == a \o b


\* "".split("\n") is [""]: the empty text still has one (empty) line.
Lines(t) == IF t = <<>> THEN << <<>> >> ELSE t

----------------------------------------------------------------------------
(* Parser harness: two diff texts are built line by line, then parsed.     *)

\* Lines the two texts hold together.
MaxLines == 4

\* "diff --git a/<p> b/<p>"
MarkerLine(p) == <<"diff --git", " ", "a/">> \o p \o <<" ", "b/">> \o p

\* The paths the markers of the harness name: two files at the top and
\* the file f of the directory b.
MarkerPaths == {<<"f">>, <<"g">>, <<"b/", "f">>}

\* The lines the harness draws from: the well-formed markers, a marker
\* with no " b/" part, an added line, two kind lines and a
\* white-space-only context line.
DiffLines ==
    {MarkerLine(p) : p \in MarkerPaths}
    \cup {<<"diff --git">>, <<"+", "x">>, <<"new file">>, <<"rename from">>,
          <<" ">>}

AppendA(l) ==
    /\ parsePhase = "build"
    /\ Len(textA) + Len(textB) < MaxLines
    /\ textA' = Append(textA, l)
    /\ UNCHANGED <<textB, parsePhase, parseOut>>

AppendB(l) ==
    /\ parsePhase = "build"
    /\ Len(textA) + Len(textB) < MaxLines
    /\ textB' = Append(textB, l)
    /\ UNCHANGED <<textA, parsePhase, parseOut>>

ParseTexts ==
    /\ parsePhase = "build"
    /\ parsePhase' = "parsed"
    /\ parseOut' =
         [a |-> parse_unified_diff(Lines(textA)),
          b |-> parse_unified_diff(Lines(textB)),
          ab |-> parse_unified_diff(JoinTexts(Lines(textA), Lines(textB))),
          oa |-> GitDiffCapture_parse_unified_diff(Lines(textA)),
          ob |-> GitDiffCapture_parse_unified_diff(Lines(textB)),
          oab |-> GitDiffCapture_parse_unified_diff(
                      JoinTexts(Lines(textA), Lines(textB)))]
    /\ UNCHANGED <<textA, textB>>

InitParse ==
    /\ textA = <<>>
    /\ textB = <<>>
    /\ parsePhase = "build"
    /\ parseOut = [a |-> <<>>, b |-> <<>>, ab |-> <<>>,
                   oa |-> <<>>, ob |-> <<>>, oab |-> <<>>]

----------------------------------------------------------------------------
(* Repository and GitDiffCapture                                           *)

\* The files of the repository, in the order git lists them.
PathOrder == << <<"f">>, <<"g">> >>
Paths == Range(PathOrder)

\* One file section of git's output: marker, kind line, hunk header and
\* one added line; `mark` tells the staged content from the work tree's.
Section(p, kind, mark) ==
    <<MarkerLine(p)>>
    \o (IF kind = "added" THEN << <<"new file">> >> ELSE <<>>)
    \o << <<"@@">>, <<"+", mark>> >>

\* fnames = [] selects every path (no "--" filter is passed).
Selected(p, fnames) == fnames = <<>> \/ p \in Range(fnames)

\* repo.git.diff("--cached", ...): index against HEAD or the empty tree.
GitDiffCached(r, fnames) ==
    Concat([i \in DOMAIN PathOrder |->
        LET p == PathOrder[i]
        IN IF r.staged[p] # "none" /\ Selected(p, fnames)
           THEN Section(p, r.staged[p], "s") ELSE <<>>])

\* repo.git.diff(...): work tree against the index.
GitDiffWorktree(r, fnames) ==
    Concat([i \in DOMAIN PathOrder |->
        LET p == PathOrder[i]
        IN IF r.unstaged[p] # "none" /\ Selected(p, fnames)
           THEN Section(p, "modified", "w") ELSE <<>>])

\* repo.git.diff("HEAD", ...): work tree against HEAD, one pass.
GitDiffHead(r, fnames) ==
    Concat([i \in DOMAIN PathOrder |->
        LET p == PathOrder[i]
        IN IF (r.staged[p] # "none" \/ r.unstaged[p] # "none")
              /\ Selected(p, fnames)
           THEN Section(p, IF r.staged[p] = "added" THEN "added"
                           ELSE "modified",
                        IF r.unstaged[p] # "none" THEN "w" ELSE "s")
           ELSE <<>>])

\* The failures of the repository layer: the path is not a repository,
\* the git executable is missing, a git command fails, the file system
\* fails, the GitPython module cannot be imported.
FailureKinds ==
    {"not_a_repository", "git_missing", "command_failed", "io_error",
     "module_missing"}

\* The exception a failure raises where the capture touches self.repo or
\* runs repo.git.diff.
RaisedBy(kind) ==
    CASE kind = "not_a_repository" -> "InvalidGitRepositoryError"
      [] kind = "git_missing" -> "GitCommandNotFound"
      [] kind = "command_failed" -> "GitCommandError"
      [] kind = "io_error" -> "OSError"
      [] kind = "module_missing" -> "AttributeError"

\* The classes an exception is an instance of besides its own (git.exc).
Bases(exc) ==
    CASE exc = "InvalidGitRepositoryError" -> {"GitError", "Exception"}
      [] exc = "GitCommandNotFound" -> {"GitError", "Exception"}
      [] exc = "GitCommandError" -> {"GitError", "Exception"}
      [] OTHER -> {"Exception"}

\* Mutant: OSError and the base class of the library's errors are not
\* in the tuple.
GIT_ERRORS_Narrow(importable) ==
    IF importable
    THEN {"ODBError", "InvalidGitRepositoryError", "GitCommandNotFound",
          "IndexError", "BufferError", "TypeError", "ValueError"}
    ELSE {"Exception"}

\* The GIT_ERRORS tuple, as the import of git succeeds or not.
GIT_ERRORS(importable) ==
    IF importable
    THEN {"ODBError", "GitError", "InvalidGitRepositoryError",
          "GitCommandNotFound", "OSError", "IndexError", "BufferError",
          "TypeError", "ValueError"}
    ELSE {"Exception"}

\* "except GIT_ERRORS" takes the exception.
Caught(exc, errors) == ({exc} \cup Bases(exc)) \cap errors # {}

\* A capture operation on r ends with an exception: its body raised and
\* "except GIT_ERRORS ...: return []" did not take it.
Raises(r) ==
    /\ r.error # "none"
    /\ ~Caught(RaisedBy(r.error), GIT_ERRORS(r.error # "module_missing"))

\* GitDiffCapture._has_commits
has_commits(r) == r.error = "none" /\ r.has_commits

\* GitDiffCapture.get_combined_diff(file_paths)
get_combined_diff(r, fnames) ==
    IF r.error # "none" THEN <<>>
    ELSE IF has_commits(r)
    THEN GitDiffCapture_parse_unified_diff(Lines(GitDiffHead(r, fnames)))
    ELSE LET staged == GitDiffCached(r, fnames)
             \* wd_args is [] without a filter, and then unstaged = ""
             unstaged == IF fnames # <<>> THEN GitDiffWorktree(r, fnames)
                         ELSE <<>>
         IN GitDiffCapture_parse_unified_diff(
                JoinTexts(Lines(staged), Lines(unstaged)))

\* GitDiffCapture.get_unstaged_diff
get_unstaged_diff(r) ==
    IF r.error # "none" THEN <<>>
    ELSE GitDiffCapture_parse_unified_diff(Lines(GitDiffWorktree(r, <<>>)))

\* GitDiffCapture.get_staged_diff
get_staged_diff(r) ==
    IF r.error # "none" THEN <<>>
    ELSE GitDiffCapture_parse_unified_diff(Lines(GitDiffCached(r, <<>>)))

\* GitDiffCapture.get_dirty_files: the sorted names of the staged and
\* the unstaged files.
get_dirty_files(r) ==
    IF r.error # "none" THEN <<>>
    ELSE SelectSeq(PathOrder,
                   LAMBDA p : r.staged[p] # "none" \/ r.unstaged[p] # "none")

EmptyRepo ==
    [has_commits |-> FALSE, error |-> "none", head |-> {},
     staged |-> [p \in Paths |-> "none"],
     unstaged |-> [p \in Paths |-> "none"]]

\* git add p
RepoAdd(p) ==
    /\ \/ repo.unstaged[p] # "none"
       \/ (p \notin repo.head /\ repo.staged[p] = "none")
    /\ repo' = [repo EXCEPT
                  !.staged[p] = IF p \in repo.head THEN "modified"
                                ELSE "added",
                  !.unstaged[p] = "none"]
    /\ UNCHANGED <<gitCall, gitResult, gitRaised>>

\* an edit of a file the index knows
RepoWrite(p) ==
    /\ p \in repo.head \/ repo.staged[p] # "none"
    /\ repo.unstaged[p] = "none"
    /\ repo' = [repo EXCEPT !.unstaged[p] = "modified"]
    /\ UNCHANGED <<gitCall, gitResult, gitRaised>>

\* git commit
RepoCommit ==
    /\ \E p \in Paths : repo.staged[p] # "none"
    /\ repo' = [repo EXCEPT
                  !.has_commits = TRUE,
                  !.head = @ \cup {p \in Paths : repo.staged[p] # "none"},
                  !.staged = [p \in Paths |-> "none"]]
    /\ UNCHANGED <<gitCall, gitResult, gitRaised>>

\* The path filters a caller passes; <<>> is "no filter".
PathFilters == {<<>>, << <<"f">> >>, << <<"g">> >>, PathOrder}

\* What a call may meet: no failure, or one of the failures.
Failures == {"none"} \cup FailureKinds

\* The repository as a call that meets the failure finds it.
WithFailure(r, failure) == [r EXCEPT !.error = failure]

CallCombinedDiff(fnames, failure) ==
    /\ gitCall' = [op |-> "get_combined_diff", fnames |-> fnames,
                   repo |-> WithFailure(repo, failure)]
    /\ gitResult' = get_combined_diff(WithFailure(repo, failure), fnames)
    /\ gitRaised' = Raises(WithFailure(repo, failure))
    /\ UNCHANGED repo

\* The three capture operations that take no argument.
CaptureOps == {"get_unstaged_diff", "get_staged_diff", "get_dirty_files"}

CallCapture(op, failure) ==
    /\ gitCall' = [op |-> op, fnames |-> <<>>,
                   repo |-> WithFailure(repo, failure)]
    /\ gitResult' =
         LET r == WithFailure(repo, failure)
         IN CASE op = "get_unstaged_diff" -> get_unstaged_diff(r)
              [] op = "get_staged_diff" -> get_staged_diff(r)
              [] op = "get_dirty_files" -> get_dirty_files(r)
    /\ gitRaised' = Raises(WithFailure(repo, failure))
    /\ UNCHANGED repo

InitGit ==
    /\ repo = EmptyRepo
    /\ gitCall = [op |-> "none", fnames |-> <<>>, repo |-> EmptyRepo]
    /\ gitResult = <<>>
    /\ gitRaised = FALSE

----------------------------------------------------------------------------
(* TemporalMatcher                                                         *)

DEFAULT_WINDOW_SECONDS == 90
window == DEFAULT_WINDOW_SECONDS

\* Identifier-shaped tokens of three or more characters: what the regular
\* expression [a-zA-Z_][a-zA-Z0-9_]{2,} finds among the model's tokens.
IdentTokens ==
    {"please", "fix", "the", "login", "bug", "user", "auth", "null", "check"}

\* the noise set of _extract_keywords, restricted to the model's tokens
NoiseWords == {"the"}

\* TemporalMatcher._extract_keywords over a sequence of tokens
extract_keywords(tokens) == (Range(tokens) \cap IdentTokens) \ NoiseWords

\* pathlib.Path(p).name: the last component ("" for the empty path)
PathName(p) == IF p = <<>> THEN "" ELSE p[Len(p)]

Abs(x) == IF x < 0 THEN -x ELSE x

MinOf(S) == CHOOSE x \in S : \A y \in S : x <= y

\* A score is the exact rational n / d of the float the code computes.
Rat(n, d) == [n |-> n, d |-> d]

\* Mutant: the end of the window is excluded.
find_changes_in_window_OpenEnd(hist, prompt_time) ==
    SelectSeq(hist, LAMBDA c : prompt_time <= c.timestamp
                               /\ c.timestamp < prompt_time + window)

\* TemporalMatcher._find_changes_in_window
find_changes_in_window(hist, prompt_time) ==
    SelectSeq(hist, LAMBDA c : prompt_time <= c.timestamp
                               /\ c.timestamp <= prompt_time + window)

\* Mutant: the distance taken is that of the farthest candidate.
TimeScore_Farthest(convo, changes) ==
    IF changes = <<>> THEN Rat(0, 1)
    ELSE Rat(10, 10 + (CHOOSE x \in {Abs(changes[i].timestamp
                                          - convo.timestamp) :
                                      i \in DOMAIN changes} :
                          \A i \in DOMAIN changes :
                              Abs(changes[i].timestamp - convo.timestamp)
                                <= x))

\* time_score: 1 / (1 + min_delta / 10) = 10 / (10 + min_delta), 0 if none
TimeScore(convo, changes) ==
    IF changes = <<>> THEN Rat(0, 1)
    ELSE Rat(10, 10 + MinOf({Abs(changes[i].timestamp - convo.timestamp) :
                                 i \in DOMAIN changes}))

\* file_score: name overlap of declared context files and diff paths
FileScore(convo, diffs) ==
    LET context_set == {PathName(f) : f \in Range(convo.context_files)} \ {""}
        diff_set == {PathName(diffs[i].file_path) : i \in DOMAIN diffs} \ {""}
    IN IF context_set # {} /\ diff_set # {}
       THEN Rat(Cardinality(context_set \cap diff_set),
                Max(Cardinality(context_set), 1))
       ELSE Rat(0, 1)

\* keyword_score: overlap of prompt keywords and hunk keywords
KeywordScore(convo, diffs) ==
    LET prompt_words == extract_keywords(convo.prompt)
        diff_words == UNION {extract_keywords(Concat(diffs[i].hunk)) :
                                 i \in DOMAIN diffs}
    IN IF prompt_words # {} /\ diffs # <<>> /\ diff_words # {}
       THEN Rat(Cardinality(prompt_words \cap diff_words),
                Max(Cardinality(prompt_words), 1))
       ELSE Rat(0, 1)

\* TemporalMatcher._calculate_match_score:
\* Mutant: the three signals are added without their weights.
calculate_match_score_Unweighted(convo, diffs, changes) ==
    IF diffs = <<>> /\ changes = <<>> THEN Rat(0, 1)
    ELSE LET t == TimeScore(convo, changes)
             f == FileScore(convo, diffs)
             k == KeywordScore(convo, diffs)
         IN Rat(t.n * f.d * k.d + f.n * t.d * k.d + k.n * t.d * f.d,
                t.d * f.d * k.d)

\* 0.5 * time_score + 0.3 * file_score + 0.2 * keyword_score
calculate_match_score(convo, diffs, changes) ==
    IF diffs = <<>> /\ changes = <<>> THEN Rat(0, 1)
    ELSE LET t == TimeScore(convo, changes)
             f == FileScore(convo, diffs)
             k == KeywordScore(convo, diffs)
         IN Rat(5 * t.n * f.d * k.d + 3 * f.n * t.d * k.d
                    + 2 * k.n * t.d * f.d,
                10 * t.d * f.d * k.d)

----------------------------------------------------------------------------
(* Derived fields: title and reasoning excerpt, computed on characters     *)

\* The characters of a token; a token not listed here is one character.
Chars(tok) ==
    CASE tok = "please" -> <<"p", "l", "e", "a", "s", "e">>
      [] tok = "fix" -> <<"f", "i", "x">>
      [] tok = "the" -> <<"t", "h", "e">>
      [] tok = "login" -> <<"l", "o", "g", "i", "n">>
      [] tok = "bug" -> <<"b", "u", "g">>
      [] tok = "updated" -> <<"u", "p", "d", "a", "t", "e", "d">>
      [] tok = "auth.js" -> <<"a", "u", "t", "h", ".", "j", "s">>
      [] tok = "to" -> <<"t", "o">>
      [] tok = "null" -> <<"n", "u", "l", "l">>
      [] tok = "check" -> <<"c", "h", "e", "c", "k">>
      [] tok = "was" -> <<"w", "a", "s">>
      [] tok = "backwards" -> <<"b", "a", "c", "k", "w", "a", "r", "d", "s">>
      [] tok = "Thinking" -> <<"T", "h", "i", "n", "k", "i", "n", "g">>
      [] tok = "done" -> <<"d", "o", "n", "e">>
      [] tok = "user" -> <<"u", "s", "e", "r">>
      [] OTHER -> <<tok>>

\* The text a sequence of tokens stands for, character by character.
Spell(tokens) == Concat([i \in DOMAIN tokens |-> Chars(tokens[i])])

LowerLetters ==
    <<"a", "b", "c", "d", "e", "f", "g", "h", "i", "j", "k", "l", "m", "n",
        "o", "p", "q", "r", "s", "t", "u", "v", "w", "x", "y", "z">>
UpperLetters ==
    <<"A", "B", "C", "D", "E", "F", "G", "H", "I", "J", "K", "L", "M", "N",
        "O", "P", "Q", "R", "S", "T", "U", "V", "W", "X", "Y", "Z">>

\* str.upper() and str.lower() of one character
Upper(c) ==
    IF \E i \in DOMAIN LowerLetters : LowerLetters[i] = c
    THEN UpperLetters[CHOOSE i \in DOMAIN LowerLetters : LowerLetters[i] = c]
    ELSE c
Lower(c) ==
    IF \E i \in DOMAIN UpperLetters : UpperLetters[i] = c
    THEN LowerLetters[CHOOSE i \in DOMAIN UpperLetters : UpperLetters[i] = c]
    ELSE c
LowerAll(s) == [i \in DOMAIN s |-> Lower(s[i])]

\* the white space of \s and of str.strip(), among the model's characters
WhiteSpace == {" ", "\n", "\t"}

\* The positions of s that hold no white space.
InkAt(s) == {i \in DOMAIN s : s[i] \notin WhiteSpace}

\* str.lstrip() and str.rstrip()
LStripWs(s) ==
    IF InkAt(s) = {} THEN <<>> ELSE SubSeq(s, MinOf(InkAt(s)), Len(s))

RStripWs(s) ==
    IF InkAt(s) = {} THEN <<>>
    ELSE SubSeq(s, 1, CHOOSE i \in InkAt(s) : \A j \in InkAt(s) : j <= i)

StripWs(s) == RStripWs(LStripWs(s))

\* s.startswith(p), s[n:] and s[:n]
IsPrefix(p, s) == Len(p) <= Len(s) /\ SubSeq(s, 1, Len(p)) = p
Drop(s, n) == SubSeq(s, n + 1, Len(s))
Take(s, n) == SubSeq(s, 1, IF Len(s) < n THEN Len(s) ELSE n)

\* re.sub(p1|p2, "", s) for literal alternatives
\* (leftmost match first, the scan going on after each match)
RECURSIVE RemoveLiterals(_, _)
RemoveLiterals(s, pats) ==
    LET cands == {i \in DOMAIN s : s[i] \in {p[1] : p \in pats}}
        at == {i \in cands : \E p \in pats : IsPrefix(p, Drop(s, i - 1))}
    IN IF at = {} THEN s
       ELSE LET i == MinOf(at)
                p == CHOOSE x \in pats : IsPrefix(x, Drop(s, i - 1))
            IN SubSeq(s, 1, i - 1)
               \o RemoveLiterals(Drop(s, i - 1 + Len(p)), pats)

\* re.sub(r"<[^>]{1,30}>", "", s): "<", 1 to 30 characters other than
\* ">", then ">"
\* The position of the ">" that ends a match starting at i, 0 if none.
ShortTagEnd(s, i) ==
    LET closes == {j \in (i + 1)..Len(s) : s[j] = ">"}
        j == IF closes = {} THEN 0 ELSE MinOf(closes)
    IN IF s[i] = "<" /\ j >= i + 2 /\ j <= i + 31 THEN j ELSE 0

RECURSIVE RemoveShortTags(_)
RemoveShortTags(s) ==
    LET at == {i \in {k \in DOMAIN s : s[k] = "<"} : ShortTagEnd(s, i) # 0}
    IN IF at = {} THEN s
       ELSE LET i == MinOf(at)
            IN SubSeq(s, 1, i - 1)
               \o RemoveShortTags(Drop(s, ShortTagEnd(s, i)))

\* re.sub(r"\s+", " ", s)
\* (a run of white space leaves one blank where it began)
CollapseWs(s) ==
    LET kept == SelectSeq([i \in DOMAIN s |-> i],
                          LAMBDA i : \/ s[i] \notin WhiteSpace
                                     \/ i = 1
                                     \/ s[i - 1] \notin WhiteSpace)
    IN [k \in DOMAIN kept |->
           IF s[kept[k]] \in WhiteSpace THEN " " ELSE s[kept[k]]]

\* The filler prefixes of _generate_clean_title, in the code's order; the
\* Chinese ones are left out, the model's characters being ASCII.
FillerPrefixes ==
    <<
      <<"p", "l", "e", "a", "s", "e", " ">>,
      <<"h", "e", "l", "p", " ", "m", "e", " ">>,
      <<"c", "a", "n", " ", "y", "o", "u", " ">>,
      <<"i", " ", "w", "a", "n", "t", " ", "t", "o", " ">>,
      <<"i", " ", "n", "e", "e", "d", " ", "t", "o", " ">>
    >>

\* "for prefix in (...): if clean.lower().startswith(prefix): ...; break"
RemoveFiller(s) ==
    LET hits == {i \in DOMAIN FillerPrefixes :
                    IsPrefix(FillerPrefixes[i], LowerAll(s))}
    IN IF hits = {} THEN s ELSE Drop(s, Len(FillerPrefixes[MinOf(hits)]))

UserQueryTags ==
    LET name == <<"u", "s", "e", "r", "_", "q", "u", "e", "r", "y">>
    IN {<<"<">> \o name \o <<">">>, <<"<", "/">> \o name \o <<">">>}
SystemReminderTags ==
    LET name == <<"s", "y", "s", "t", "e", "m", "_", "r", "e", "m", "i", "n",
                  "d", "e", "r">>
    IN {<<"<">> \o name \o <<">">>, <<"<", "/">> \o name \o <<">">>}

\* Mutant: "clean[:80] + "..."".
generate_clean_title_Cut80(prompt) ==
    LET stripped == StripWs(prompt)
        untagged == RemoveShortTags(
                        RemoveLiterals(RemoveLiterals(stripped, UserQueryTags),
                                       SystemReminderTags))
        collapsed == StripWs(CollapseWs(untagged))
        unfilled == StripWs(RemoveFiller(collapsed))
        clean == IF unfilled = <<>> THEN unfilled
                 ELSE <<Upper(Head(unfilled))>> \o Tail(unfilled)
    IN IF Len(clean) > 80 THEN SubSeq(clean, 1, 80) \o <<".", ".", ".">>
       ELSE clean

\* TemporalMatcher._generate_clean_title, on the characters of the prompt
generate_clean_title(prompt) ==
    LET stripped == StripWs(prompt)
        untagged == RemoveShortTags(
                        RemoveLiterals(RemoveLiterals(stripped, UserQueryTags),
                                       SystemReminderTags))
        collapsed == StripWs(CollapseWs(untagged))
        unfilled == StripWs(RemoveFiller(collapsed))
        clean == IF unfilled = <<>> THEN unfilled
                 ELSE <<Upper(Head(unfilled))>> \o Tail(unfilled)
    IN IF Len(clean) > 80 THEN SubSeq(clean, 1, 77) \o <<".", ".", ".">>
       ELSE clean

\* Title harness: a prompt is put together from pieces, then its title
\* is derived.
MaxPieces == 5

\* The pieces: a word of 40 letters, a letter, a blank, a line break, a
\* filler word, the wrapper tag and a short tag.
TitlePieces == {"w40", "x", " ", "\n", "please", "<user_query>", "<b>"}

\* The characters of a piece.
PieceChars(piece) ==
    CASE piece = "w40" -> [i \in 1..40 |-> "w"]
      [] piece = "<user_query>" ->
           <<"<", "u", "s", "e", "r", "_", "q", "u", "e", "r", "y", ">">>
      [] piece = "<b>" -> <<"<", "b", ">">>
      [] OTHER -> Chars(piece)

AppendPiece(piece) ==
    /\ titlePhase = "build"
    /\ Len(titlePrompt) < MaxPieces
    /\ titlePrompt' = Append(titlePrompt, piece)
    /\ UNCHANGED <<titlePhase, titleOut>>

\* The text of the prompt built so far.
PromptText == Concat([i \in DOMAIN titlePrompt |-> PieceChars(titlePrompt[i])])

DeriveTitle ==
    /\ titlePhase = "build"
    /\ titlePhase' = "derived"
    /\ titleOut' = generate_clean_title(PromptText)
    /\ UNCHANGED titlePrompt

InitTitle ==
    /\ titlePrompt = <<>>
    /\ titlePhase = "build"
    /\ titleOut = <<>>

ThinkingOpen == <<"[", "t", "h", "i", "n", "k", "i", "n", "g">>

\* re.search(r"\[Thinking:?\s*(.*?)\]", clean, DOTALL | IGNORECASE):
\* the leftmost "[thinking" with a "]" after it; group(1) runs from the
\* end of the optional ":" and the white space to the first "]".
ThinkingMatch(s) ==
    LET low == LowerAll(s)
        starts == {i \in DOMAIN s :
                     /\ IsPrefix(ThinkingOpen, Drop(low, i - 1))
                     /\ \E j \in (i + Len(ThinkingOpen))..Len(s) : s[j] = "]"}
    IN IF starts = {} THEN [found |-> FALSE, group |-> <<>>]
       ELSE LET i == MinOf(starts)
                a == i + Len(ThinkingOpen)
                b == IF s[a] = ":" THEN a + 1 ELSE a
                body == LStripWs(Drop(s, b - 1))
                close == MinOf({j \in DOMAIN body : body[j] = "]"})
            IN [found |-> TRUE, group |-> SubSeq(body, 1, close - 1)]

\* clean.split("\n\n"), from position `from` on
RECURSIVE SplitParagraphs(_, _)
SplitParagraphs(s, from) ==
    LET seps == {i \in from..(Len(s) - 1) : s[i] = "\n" /\ s[i + 1] = "\n"}
    IN IF seps = {} THEN <<SubSeq(s, from, Len(s))>>
       ELSE <<SubSeq(s, from, MinOf(seps) - 1)>>
            \o SplitParagraphs(s, MinOf(seps) + 2)

\* What a paragraph must not start with to count as reasoning; "BQ"
\* names the backquote character.
CodePrefixes ==
    {
     <<"BQ", "BQ", "BQ">>,
     <<"i", "m", "p", "o", "r", "t", " ">>,
     <<"f", "r", "o", "m", " ">>,
     <<"d", "e", "f", " ">>,
     <<"c", "l", "a", "s", "s", " ">>
    }

\* TemporalMatcher._extract_reasoning, on the characters of the response
extract_reasoning(response) ==
    IF response = <<>> THEN <<>>
    ELSE LET clean == StripWs(response)
             thinking_match == ThinkingMatch(clean)
             paragraphs == SplitParagraphs(clean, 1)
             good == {k \in DOMAIN paragraphs :
                        LET para == StripWs(paragraphs[k])
                        IN /\ Len(para) > 30
                           /\ ~\E p \in CodePrefixes : IsPrefix(p, para)}
         IN IF thinking_match.found
            THEN Take(StripWs(thinking_match.group), 500)
            ELSE IF good # {}
            THEN Take(StripWs(paragraphs[MinOf(good)]), 500)
            ELSE Take(clean, 500)

\* The exchanges the producers may add.
\* "please fix the login bug", answered with a bracketed thinking block
LoginPrompt == <<"please", " ", "fix", " ", "the", " ", "login", " ", "bug">>
LoginResponse ==
    <<"I", " ", "updated", " ", "auth.js", " ", "to", " ", "fix", " ", "the",
      " ", "null", " ", "check", ".", " ", "[", "Thinking", ":", " ", "the",
      " ", "null", " ", "check", " ", "was", " ", "backwards", "]">>
ExchangeChoices ==
    {[timestamp |-> 0, prompt |-> LoginPrompt, response |-> LoginResponse,
      context_files |-> << <<"auth.js">> >>],
     [timestamp |-> 0, prompt |-> <<"the">>, response |-> <<"done">>,
      context_files |-> <<>>],
     [timestamp |-> 80,
      prompt |-> <<"check", " ", "the", " ", "user">>,
      response |-> <<"done">>, context_files |-> <<>>]}
\* The derived fields of the exchanges above, each computed once: flush
\* computes them anew at every call with the same result.
CleanTitles ==
    {[of |-> e.prompt, is |-> generate_clean_title(Spell(e.prompt))] :
        e \in ExchangeChoices}
Reasonings ==
    {[of |-> e.response, is |-> extract_reasoning(Spell(e.response))] :
        e \in ExchangeChoices}

\* self._generate_clean_title(convo.prompt)
clean_title_of(prompt) ==
    IF \E m \in CleanTitles : m.of = prompt
    THEN (CHOOSE m \in CleanTitles : m.of = prompt).is
    ELSE generate_clean_title(Spell(prompt))

\* self._extract_reasoning(convo.response)
reasoning_of(response) ==
    IF \E m \in Reasonings : m.of = response
    THEN (CHOOSE m \in Reasonings : m.of = response).is
    ELSE extract_reasoning(Spell(response))

\* The git_capture argument of flush: absent, or a GitDiffCapture whose
\* repository is r1 when get_combined_diff runs and r2 when
\* get_unstaged_diff runs (the work tree is outside the engine's control).
\* The capture is held as what its two calls return.
\* `raised` tells that one of the two calls ends with an exception,
\* `failure` which failure of the repository layer the calls met.
NoCapture ==
    [present |-> FALSE, combined |-> <<>>, unstaged |-> <<>>,
     raised |-> FALSE, failure |-> "none"]
CaptureOf(combined, unstaged) ==
    [present |-> TRUE, combined |-> combined, unstaged |-> unstaged,
     raised |-> FALSE, failure |-> "none"]
Capture(r1, r2) ==
    [CaptureOf(get_combined_diff(r1, <<>>), get_unstaged_diff(r2))
        EXCEPT !.raised = Raises(r1)
                          \/ (get_combined_diff(r1, <<>>) = <<>> /\ Raises(r2)),
               !.failure = IF r1.error # "none" THEN r1.error ELSE r2.error]

\* The calls flush makes on its git_capture for one exchange.
AcquireCalls(cap) ==
    IF ~cap.present THEN <<>>
    ELSE IF cap.combined # <<>> THEN <<"get_combined_diff">>
    ELSE <<"get_combined_diff", "get_unstaged_diff">>

\* Mutant: the events of the window, when there are any, take the place
\* of the capture's diffs.
AcquireDiffs_PreferEvents(cap, matched_changes) ==
    LET combined == IF cap.present THEN cap.combined ELSE <<>>
        git == IF cap.present /\ combined = <<>>
               THEN cap.unstaged ELSE combined
    IN IF matched_changes # <<>>
       THEN [i \in DOMAIN matched_changes |->
                FileDiff(matched_changes[i].file_path, <<>>,
                         matched_changes[i].change_type)]
       ELSE git

\* Mutant: diffs are built from the events only when no capture is given.
AcquireDiffs_SynthesizeWithoutCapture(cap, matched_changes) ==
    LET combined == IF cap.present THEN cap.combined ELSE <<>>
        git == IF cap.present /\ combined = <<>>
               THEN cap.unstaged ELSE combined
    IN IF ~cap.present /\ matched_changes # <<>>
       THEN [i \in DOMAIN matched_changes |->
                FileDiff(matched_changes[i].file_path, <<>>,
                         matched_changes[i].change_type)]
       ELSE git

\* Steps 2 and 3 of the loop body of flush: the attributed diffs.
AcquireDiffs(cap, matched_changes) ==
    LET combined == IF cap.present THEN cap.combined ELSE <<>>
        git == IF cap.present /\ combined = <<>>
               THEN cap.unstaged ELSE combined
    IN IF git = <<>> /\ matched_changes # <<>>
       THEN [i \in DOMAIN matched_changes |->
                FileDiff(matched_changes[i].file_path, <<>>,
                         matched_changes[i].change_type)]
       ELSE git

\* The PulseNode flush builds (models.py); it has no score field.
PulseNode(convo, diffs) ==
    [timestamp |-> convo.timestamp,
     source |-> [session_id |-> convo.session_id],
     intent |-> [raw_prompt |-> convo.prompt,
                 clean_title |-> clean_title_of(convo.prompt),
                 context_files |-> convo.context_files],
     execution |-> [ai_response |-> convo.response,
                    reasoning |-> reasoning_of(convo.response),
                    diffs |-> diffs,
                    affected_files |-> {diffs[i].file_path : i \in DOMAIN diffs}],
     status |-> "completed",
     token_usage |-> 0]

\* One pass of the loop body of flush for one pending exchange: the node
\* appended to `nodes` and the value of the local variable `score`.
ProcessExchange(convo, hist, cap) ==
    LET matched_changes == find_changes_in_window(hist, convo.timestamp)
        diffs == AcquireDiffs(cap, matched_changes)
    IN [node |-> PulseNode(convo, diffs),
        score |-> calculate_match_score(convo, diffs, matched_changes),
        matched |-> matched_changes,
        calls |-> AcquireCalls(cap)]

\* Mutant: the history is pruned to one window.
PruneHistory_OneWindow(hist, at) ==
    SelectSeq(hist, LAMBDA c : c.timestamp > at - window)

\* Mutant: an entry exactly 2W old is kept.
PruneHistory_KeepBoundary(hist, at) ==
    SelectSeq(hist, LAMBDA c : c.timestamp >= at - 2 * window)

\* "self._file_changes = [c for c in ... if c.timestamp > cutoff]"
PruneHistory(hist, at) ==
    SelectSeq(hist, LAMBDA c : c.timestamp > at - 2 * window)

----------------------------------------------------------------------------
(* TemporalMatcher: operations                                             *)

MaxExchanges == 2
MaxChanges == 2
MaxClock == 190
MaxFailures == 1

\* The exchanges and file-change events the producers may add.
ExchangeTimes == {0, 80}
ChangeChoices ==
    {[file_path |-> <<"src/", "auth.js">>, change_type |-> "modified",
      timestamp |-> 5],
     [file_path |-> <<"f">>, change_type |-> "added", timestamp |-> 89],
     [file_path |-> <<"f">>, change_type |-> "deleted", timestamp |-> 90],
     [file_path |-> <<"f">>, change_type |-> "modified", timestamp |-> 91]}
ChangeTimes == {c.timestamp : c \in ChangeChoices}
\* The clock runs on to the age at which the change at 5 is exactly 2W
\* old, or a little further.
TickSteps == {185, 190}

\* Repositories a capture may be looking at.
RepoDirty ==
    [EmptyRepo EXCEPT !.has_commits = TRUE, !.head = Paths,
                      !.unstaged = [p \in Paths |->
                                      IF p = <<"f">> THEN "modified"
                                      ELSE "none"]]
RepoBroken == [EmptyRepo EXCEPT !.error = "not_a_repository"]
\* The diff "@@ ... - if (user) ... + if (!user) ..." of src/auth.js
AuthDiff ==
    FileDiff(<<"src/", "auth.js">>,
             << <<"@@", " ", "...", " ", "-", " ", "if", " ", "(", "user", ")",
                  " ", "...", " ", "+", " ", "if", " ", "(", "!", "user", ")",
                  " ", "...">> >>,
             "modified")
Captures ==
    {NoCapture, CaptureOf(<<AuthDiff>>, <<>>), Capture(RepoDirty, RepoDirty),
     Capture(EmptyRepo, RepoDirty), Capture(RepoBroken, RepoBroken)}

\* TemporalMatcher.add_prompt; session_id numbers the exchanges.
add_prompt(t, prompt, response, ctx) ==
    /\ nAdded < MaxExchanges
    /\ LET convo == [timestamp |-> t, prompt |-> prompt,
                     response |-> response, session_id |-> nAdded + 1,
                     context_files |-> ctx]
       IN /\ pending' = Append(pending, convo)
          /\ added' = added \cup {convo.session_id}
    /\ nAdded' = nAdded + 1
    /\ UNCHANGED <<history, now, returned, scores, lastFlush, nChanged, everChanged, lastFailure,
                   allReturned, flushVars>>

\* Mutant: the event is put at the head of the history.
add_file_change_AtHead(path, kind, t) ==
    /\ nChanged < MaxChanges
    /\ LET event == [file_path |-> path, change_type |-> kind,
                     timestamp |-> t, seq |-> nChanged + 1]
           cutoff == fnow - 2 * window
       IN /\ history' = <<event>> \o history
          /\ everChanged' = everChanged \cup {event}
          /\ duringPrune' =
               IF fpc \in {"prune", "store"} /\ t > cutoff
               THEN duringPrune \cup {event} ELSE duringPrune
    /\ nChanged' = nChanged + 1
    /\ UNCHANGED <<lastFailure, pending, now, returned, scores, lastFlush, nAdded, added,
                   allReturned, fpc, fcap, fnow, fidx, fnodes, pidx, pacc>>

\* TemporalMatcher.add_file_change; seq numbers the events.
add_file_change(path, kind, t) ==
    /\ nChanged < MaxChanges
    /\ LET event == [file_path |-> path, change_type |-> kind,
                     timestamp |-> t, seq |-> nChanged + 1]
           cutoff == fnow - 2 * window
       IN /\ history' = Append(history, event)
          /\ everChanged' = everChanged \cup {event}
          /\ duringPrune' =
               IF fpc \in {"prune", "store"} /\ t > cutoff
               THEN duringPrune \cup {event} ELSE duringPrune
    /\ nChanged' = nChanged + 1
    /\ UNCHANGED <<lastFailure, pending, now, returned, scores, lastFlush, nAdded, added,
                   allReturned, fpc, fcap, fnow, fidx, fnodes, pidx, pacc>>

\* datetime.utcnow() advances.
Tick ==
    /\ \E d \in TickSteps : now + d <= MaxClock /\ now' = now + d
    /\ UNCHANGED <<pending, history, returned, scores, lastFlush, nAdded,
                   nChanged, everChanged, lastFailure, added, allReturned, flushVars>>

SessionIds(nodes) == [i \in DOMAIN nodes |-> nodes[i].source.session_id]

\* Mutant: an exchange whose score is 0 yields no record.
FlushLoop_ScoreGated(pend, hist, cap) ==
    SelectSeq([i \in DOMAIN pend |-> ProcessExchange(pend[i], hist, cap)],
              LAMBDA o : o.score.n > 0)

\* "for convo, ... in self._pending_prompts: ... nodes.append(node)"
FlushLoop(pend, hist, cap) ==
    [i \in DOMAIN pend |-> ProcessExchange(pend[i], hist, cap)]

\* Mutant: flush returns its records and leaves the queue as it was.
flush_KeepPending(cap) ==
    /\ fpc = "idle"
    /\ LET out == FlushLoop(pending, history, cap)
           nodes == [i \in DOMAIN out |-> out[i].node]
       IN /\ returned' = nodes
          /\ scores' = [i \in DOMAIN out |-> out[i].score]
          /\ allReturned' = allReturned \o SessionIds(nodes)
          /\ lastFlush' =
               [called |-> TRUE, pending |-> pending, history |-> history,
                now |-> now, cap |-> cap,
                matched |-> [i \in DOMAIN out |-> out[i].matched],
                calls |-> Concat([i \in DOMAIN out |-> out[i].calls])]
    /\ history' = PruneHistory(history, now)
    /\ UNCHANGED <<pending, now, nAdded, nChanged, everChanged, lastFailure, added, flushVars>>

\* Mutant: with nothing queued flush returns at once, without pruning.
flush_ReturnEarlyWhenEmpty(cap) ==
    /\ fpc = "idle"
    /\ pending' = <<>>
    /\ history' = IF pending = <<>> THEN history
                  ELSE PruneHistory(history, now)
    /\ UNCHANGED <<now, nAdded, nChanged, everChanged, lastFailure, added, flushVars>>
    /\ LET out == FlushLoop(pending, history, cap)
           nodes == [i \in DOMAIN out |-> out[i].node]
       IN /\ returned' = nodes
          /\ scores' = [i \in DOMAIN out |-> out[i].score]
          /\ allReturned' = allReturned \o SessionIds(nodes)
          /\ lastFlush' =
               [called |-> TRUE, pending |-> pending, history |-> history,
                now |-> now, cap |-> cap,
                matched |-> [i \in DOMAIN out |-> out[i].matched],
                calls |-> Concat([i \in DOMAIN out |-> out[i].calls])]

\* An exception of the capture leaves flush from the first iteration of
\* its loop (the calls are in no try block): nothing is returned, the
\* queue is not cleared and the history is not pruned.
FlushAborted(cap) ==
    /\ returned' = <<>>
    /\ scores' = <<>>
    /\ lastFlush' = [called |-> TRUE, pending |-> pending, history |-> history,
                     now |-> now, cap |-> cap, matched |-> <<>>,
                     calls |-> <<>>]
    /\ UNCHANGED <<pending, history, now, nAdded, nChanged, everChanged, lastFailure, added,
                   allReturned, flushVars>>

\* Mutant: the queue is cleared before the loop runs.
flush_raising_AfterClear(cap, k) ==
    /\ fpc = "idle"
    /\ k \in 1..Len(pending)
    /\ lastFailure.n < MaxFailures
    /\ LET out == FlushLoop(SubSeq(pending, 1, k - 1), history, cap)
       IN lastFlush' =
            [called |-> TRUE, pending |-> pending, history |-> history,
             now |-> now, cap |-> cap,
             matched |-> [i \in DOMAIN out |-> out[i].matched],
             calls |-> Concat([i \in DOMAIN out |-> out[i].calls])]
    /\ returned' = <<>>
    /\ scores' = <<>>
    /\ lastFailure' = [n |-> lastFailure.n + 1, pending |-> pending,
                       history |-> history, now |-> now]
    /\ pending' = <<>>
    /\ UNCHANGED <<history, now, nAdded, nChanged, everChanged,
                   added, allReturned, flushVars>>

\* A call of flush in which the body of the loop raises while it builds
\* the record of the k-th queued exchange (a TypeError of the timestamp
\* comparison, a validation error of the record): the exception leaves
\* flush, whose caller gets no list; the statements after the loop are
\* not reached.
flush_raising(cap, k) ==
    /\ fpc = "idle"
    /\ k \in 1..Len(pending)
    /\ lastFailure.n < MaxFailures
    /\ LET out == FlushLoop(SubSeq(pending, 1, k - 1), history, cap)
       IN lastFlush' =
            [called |-> TRUE, pending |-> pending, history |-> history,
             now |-> now, cap |-> cap,
             matched |-> [i \in DOMAIN out |-> out[i].matched],
             calls |-> Concat([i \in DOMAIN out |-> out[i].calls])]
    /\ returned' = <<>>
    /\ scores' = <<>>
    /\ lastFailure' = [n |-> lastFailure.n + 1, pending |-> pending,
                       history |-> history, now |-> now]
    /\ UNCHANGED <<pending, history, now, nAdded, nChanged, everChanged,
                   added, allReturned, flushVars>>

\* TemporalMatcher.flush, run with no other thread touching the engine.
flush(cap) ==
    /\ fpc = "idle"
    /\ IF cap.raised /\ pending # <<>>
       THEN FlushAborted(cap)
       ELSE /\ pending' = <<>>
            /\ history' = PruneHistory(history, now)
            /\ UNCHANGED <<now, nAdded, nChanged, everChanged, lastFailure, added, flushVars>>
            /\ LET out == FlushLoop(pending, history, cap)
                   nodes == [i \in DOMAIN out |-> out[i].node]
               IN /\ returned' = nodes
                  /\ scores' = [i \in DOMAIN out |-> out[i].score]
                  /\ allReturned' = allReturned \o SessionIds(nodes)
                  /\ lastFlush' =
                       [called |-> TRUE, pending |-> pending,
                        history |-> history, now |-> now, cap |-> cap,
                        matched |-> [i \in DOMAIN out |-> out[i].matched],
                        calls |-> Concat([i \in DOMAIN out |-> out[i].calls])]

InitMatcher ==
    /\ pending = <<>>
    /\ history = <<>>
    /\ now = 0
    /\ returned = <<>>
    /\ scores = <<>>
    /\ lastFlush = [called |-> FALSE, pending |-> <<>>, history |-> <<>>,
                    now |-> 0, cap |-> NoCapture, matched |-> <<>>,
                    calls |-> <<>>]
    /\ nAdded = 0
    /\ nChanged = 0
    /\ added = {}
    /\ allReturned = <<>>
    /\ everChanged = {}
    /\ lastFailure = [n |-> 0, pending |-> <<>>, history |-> <<>>, now |-> 0]

----------------------------------------------------------------------------
(* TemporalMatcher.flush as the interpreter runs it while other threads    *)
(* call add_prompt and add_file_change: the engine holds no lock, so the   *)
(* producers' appends interleave with the steps below.                     *)

\* "now = datetime.utcnow(); nodes = []", and the for loop's iterator
FlushBegin(cap) ==
    /\ fpc = "idle"
    /\ fpc' = "loop"
    /\ fcap' = cap
    /\ fnow' = now
    /\ fidx' = 0
    /\ fnodes' = <<>>
    /\ duringPrune' = {}
    /\ lastFlush' = [called |-> TRUE, pending |-> pending,
                     history |-> history, now |-> now, cap |-> cap,
                     matched |-> <<>>, calls |-> <<>>]
    /\ UNCHANGED <<pidx, pacc, pending, history, now, returned, scores,
                   nAdded, nChanged, everChanged, lastFailure, added, allReturned>>

\* One step of "for ... in self._pending_prompts": the list iterator reads
\* the list as it is now, so it also sees what was appended meanwhile.
FlushIter ==
    /\ fpc = "loop"
    /\ IF fidx < Len(pending)
       THEN /\ fnodes' = Append(fnodes,
                  ProcessExchange(pending[fidx + 1], history, fcap))
            /\ fidx' = fidx + 1
            /\ fpc' = "loop"
       ELSE /\ fpc' = "clear"
            /\ UNCHANGED <<fnodes, fidx>>
    /\ UNCHANGED <<fcap, fnow, pidx, pacc, duringPrune, matcherVars>>

\* "self._pending_prompts.clear()"
FlushClear ==
    /\ fpc = "clear"
    /\ pending' = <<>>
    /\ fpc' = "prune"
    /\ pidx' = 0
    /\ pacc' = <<>>
    /\ UNCHANGED <<fcap, fnow, fidx, fnodes, duringPrune, history, now,
                   returned, scores, lastFlush, nAdded, nChanged, everChanged, lastFailure, added,
                   allReturned>>

\* One step of the list comprehension over self._file_changes.
FlushPruneIter ==
    /\ fpc = "prune"
    /\ IF pidx < Len(history)
       THEN /\ pacc' = IF history[pidx + 1].timestamp > fnow - 2 * window
                       THEN Append(pacc, history[pidx + 1]) ELSE pacc
            /\ pidx' = pidx + 1
            /\ fpc' = "prune"
       ELSE /\ fpc' = "store"
            /\ UNCHANGED <<pacc, pidx>>
    /\ UNCHANGED <<fcap, fnow, fidx, fnodes, duringPrune, matcherVars>>

\* "self._file_changes = [...]" and "return nodes"
FlushStore ==
    /\ fpc = "store"
    /\ history' = pacc
    /\ returned' = [i \in DOMAIN fnodes |-> fnodes[i].node]
    /\ scores' = [i \in DOMAIN fnodes |-> fnodes[i].score]
    /\ allReturned' =
         allReturned \o [i \in DOMAIN fnodes |->
                            fnodes[i].node.source.session_id]
    /\ lastFlush' =
         [lastFlush EXCEPT
            !.matched = [i \in DOMAIN fnodes |-> fnodes[i].matched],
            !.calls = Concat([i \in DOMAIN fnodes |-> fnodes[i].calls])]
    /\ fpc' = "idle"
    /\ UNCHANGED <<fcap, fnow, fidx, fnodes, pidx, pacc, duringPrune,
                   pending, now, nAdded, nChanged, everChanged, lastFailure, added>>

InitFlush ==
    /\ fpc = "idle"
    /\ fcap = NoCapture
    /\ fnow = 0
    /\ fidx = 0
    /\ fnodes = <<>>
    /\ pidx = 0
    /\ pacc = <<>>
    /\ duringPrune = {}

----------------------------------------------------------------------------
(* PTYWrapper                                                              *)
(*                                                                         *)
(* Bytes are tokens: a plain character of child output is the letter of    *)
(* the read that delivered it, " " is white space, "CSI" and "OSC" are     *)
(* whole control sequences as the two regular expressions of               *)
(* _process_output match them, "u" is a character the user typed and "CR"  *)
(* the line terminator.                                                    *)

MinSignificant == 20
MaxEvents == 5
MaxResizes == 1

ReadTags == <<"a", "b", "c", "d", "e", "f", "g", "h">>
UserChars == {"u"}
ControlTokens == {"CSI", "OSC"}

\* Characters a token stands for: "SR" is a whole block
\* <system_reminder>x</system_reminder>, "UQ" the tag <user_query>.
TokenWidth(c) == IF c = "SR" THEN 36 ELSE IF c = "UQ" THEN 12 ELSE 1

RECURSIVE Width(_)
\* len() of a text
Width(s) == IF s = <<>> THEN 0 ELSE TokenWidth(Head(s)) + Width(Tail(s))

Rep(c, n) == [i \in 1..n |-> c]

\* What one os.read of the pseudo-terminal may deliver.
ChildChunks(c) ==
    {Rep(c, 6), Rep(c, 10), Rep(c, 15), <<"CSI", " ", "OSC">>, <<"SR">>}

\* What one os.read of the real terminal may deliver.
UserChunks == {<<"u">>, <<"CR">>}

\* The terminal modes start() may find; "raw" is what tty.setraw sets.
TermModes == {"cooked", "cbreak"}

\* The window sizes of the real terminal.
Sizes == {"80x24", "120x40"}

\* platform.system() where the module is imported.
Systems == {"Linux", "Windows"}

\* "IS_UNIX = platform.system() != "Windows""
IS_UNIX(sys) == sys # "Windows"

\* Whether os.execvp finds the command.
Commands == {"found", "missing"}

\* The wait statuses of the child: exited with a code, or signalled.
ChildStatuses ==
    {[exited |-> TRUE, code |-> 0], [exited |-> TRUE, code |-> 3],
     [exited |-> FALSE, code |-> 0]}

\* The status of the forked interpreter in which os.execvp raised: the
\* exception leaves start() in the child, which ends with code 1.
ExecFailedStatus == [exited |-> TRUE, code |-> 1]

\* The ways the relay loop ends: end of user input, end of child output
\* (or OSError reading it), OSError reading the real terminal, OSError
\* writing to the pseudo-terminal or to the real terminal,
\* KeyboardInterrupt.
ExitCauses ==
    {"stdin_eof", "child_eof", "oserror", "write_master_error",
     "write_stdout_error", "interrupt"}

\* The causes that are I/O errors.
IOErrorCauses == {"oserror", "write_master_error", "write_stdout_error"}

\* A cause with the wait status os.waitpid then reports: a child that
\* ended by itself has any status; one still running when the master is
\* closed is hung up, or exits by itself first.
ExitChoices ==
    {[cause |-> "child_eof", status |-> s] : s \in ChildStatuses}
    \cup {[cause |-> "stdin_eof", status |-> [exited |-> TRUE, code |-> 0]],
          [cause |-> "interrupt", status |-> [exited |-> FALSE, code |-> 0]]}
    \cup {[cause |-> c, status |-> [exited |-> FALSE, code |-> 0]] :
             c \in IOErrorCauses}

\* The ways the loop may end now, with the bytes in hand when it does:
\* a write that raises had its bytes read just before.
EndChoices ==
    IF ~command_found THEN {[cause |-> "child_eof", data |-> <<>>]}
    ELSE {[cause |-> c, data |-> <<>>] :
             c \in {"stdin_eof", "child_eof", "oserror", "interrupt"}}
         \cup {[cause |-> "write_master_error", data |-> <<"u">>],
               [cause |-> "write_stdout_error",
                data |-> <<ReadTags[nEvents + 1]>>]}

RECURSIVE LStrip(_)
LStrip(s) == IF s # <<>> /\ Head(s) = " " THEN LStrip(Tail(s)) ELSE s

RECURSIVE RStrip(_)
RStrip(s) ==
    IF s # <<>> /\ s[Len(s)] = " " THEN RStrip(SubSeq(s, 1, Len(s) - 1))
    ELSE s

\* str.strip()
Strip(s) == RStrip(LStrip(s))

\* the two re.sub calls of _process_output
StripControl(s) == SelectSeq(s, LAMBDA c : c \notin ControlTokens)

RECURSIVE StripUserQuery(_)
\* re.sub(r"</?user_query>\s*", "", text)
StripUserQuery(s) ==
    IF s = <<>> THEN <<>>
    ELSE IF Head(s) = "UQ" THEN StripUserQuery(LStrip(Tail(s)))
    ELSE <<Head(s)>> \o StripUserQuery(Tail(s))

\* re.sub(r"</?system_reminder>.*?</system_reminder>", "", text)
StripReminders(s) == SelectSeq(s, LAMBDA c : c # "SR")

\* Mutant: __post_init__ only trims.
RawConversation_TrimOnly(t, prompt, response) ==
    [timestamp |-> t, prompt |-> Strip(prompt), response |-> Strip(response)]

\* RawConversation(...) with __post_init__: the wrapper markup is removed
\* from the prompt, the reminder blocks from the response, both trimmed.
RawConversation(t, prompt, response) ==
    [timestamp |-> t,
     prompt |-> Strip(StripReminders(Strip(StripUserQuery(prompt)))),
     response |-> Strip(StripReminders(response))]

\* The capture state the segmentation reads and writes.
CaptureState ==
    [output_buffer |-> output_buffer, current_prompt |-> current_prompt,
     last_prompt_time |-> last_prompt_time, emitted |-> emitted]

\* Mutant: "len(response) >= 20".
flush_pending_AtLeast(st) ==
    IF st.current_prompt # <<>> /\ Strip(st.output_buffer) # <<>>
    THEN LET response == Strip(st.output_buffer)
         IN [st EXCEPT
               !.emitted =
                   IF Width(response) >= MinSignificant
                   THEN Append(@, RawConversation(st.last_prompt_time,
                                                  st.current_prompt, response))
                   ELSE @,
               !.current_prompt = <<>>,
               !.output_buffer = <<>>]
    ELSE st

\* PTYWrapper._flush_pending
flush_pending(st) ==
    IF st.current_prompt # <<>> /\ Strip(st.output_buffer) # <<>>
    THEN LET response == Strip(st.output_buffer)
         IN [st EXCEPT
               !.emitted =
                   IF Width(response) > MinSignificant
                   THEN Append(@, RawConversation(st.last_prompt_time,
                                                  st.current_prompt, response))
                   ELSE @,
               !.current_prompt = <<>>,
               !.output_buffer = <<>>]
    ELSE st

\* Mutant: the line that empties the buffer after the prompt is taken
\* from it is missing.
process_input_KeepBuffer(st, data, t) ==
    IF "CR" \in Range(data) /\ Strip(st.output_buffer) # <<>>
    THEN LET buf == st.output_buffer
             fl == flush_pending(st)
         IN [fl EXCEPT !.current_prompt = Strip(buf),
                       !.last_prompt_time = t]
    ELSE st

\* Mutant: every line terminator is a boundary, blank buffer or not.
process_input_AlwaysBoundary(st, data, t) ==
    IF "CR" \in Range(data)
    THEN LET buf == st.output_buffer
             fl == flush_pending(st)
         IN [fl EXCEPT !.current_prompt = Strip(buf),
                       !.last_prompt_time = t,
                       !.output_buffer = <<>>]
    ELSE st

\* PTYWrapper._process_input at time t
process_input(st, data, t) ==
    IF "CR" \in Range(data) /\ Strip(st.output_buffer) # <<>>
    THEN LET buf == st.output_buffer
             fl == flush_pending(st)
         IN [fl EXCEPT !.current_prompt = Strip(buf),
                       !.last_prompt_time = t,
                       !.output_buffer = <<>>]
    ELSE st

\* PTYWrapper._process_output
process_output(st, data) ==
    [st EXCEPT !.output_buffer = @ \o StripControl(data)]

\* Mutant: what is forwarded is the cleaned text.
Forward_Cleaned(data) == StripControl(data)

\* "os.write(master_fd, data)" and "os.write(sys.stdout.fileno(), data)":
\* the bytes that reach the other side.
Forward(data) == data

\* Mutant: the restore runs on the loop's two return paths only.
RestoreAttrs_OnReturnOnly(cause, old, cur) ==
    IF cause \in {"oserror", "interrupt"} THEN cur ELSE old

\* "finally: termios.tcsetattr(stdin_fd, TCSADRAIN, old_settings)"
RestoreAttrs(cause, old, cur) == old

\* Mutant: a signalled child is reported as success.
ExitCode_SignalAsZero(status) == IF status.exited THEN status.code ELSE 0

\* "os.WEXITSTATUS(status) if os.WIFEXITED(status) else 1"
ExitCode(status) == IF status.exited THEN status.code ELSE 1

\* Mutant: OSError is not among the exceptions start() handles and its
\* finally block does not return.
Propagates_OSError(cause) == cause \in IOErrorCauses

\* "except (OSError, KeyboardInterrupt): pass" and the return in the
\* finally block of start(): no way the loop ends reaches the caller as
\* an exception.
Propagates(cause) == FALSE

NoStep ==
    [kind |-> "none", waiting |-> FALSE, resp |-> <<>>, n |-> 0,
     capturedAt |-> 0, typedLine |-> <<>>, newPrompt |-> <<>>, ex |-> <<>>,
     effective |-> FALSE]

\* The exchanges a step added to the callback's log.
NewlyEmitted(before, after) == SubSeq(after, Len(before) + 1, Len(after))

SetCapture(st) ==
    /\ output_buffer' = st.output_buffer
    /\ current_prompt' = st.current_prompt
    /\ last_prompt_time' = st.last_prompt_time
    /\ emitted' = st.emitted

captureVars == <<output_buffer, current_prompt, last_prompt_time, emitted>>
streamVars == <<fromChild, toTerminal, fromUser, toChild>>
procVars == <<command_found, master_open, child, waitStatus>>
ghostVars == <<ptyNow, typed, rawSince, capturedAt, lastStep, nEvents>>

\* The user's terminal is in some mode before start() is called.
Stty(m) ==
    /\ ppc = "idle"
    /\ termAttrs' = m
    /\ preAttrs' = m
    /\ UNCHANGED <<ppc, old_settings, captureVars, ghostVars, exitStatus,
                   exitCause, procVars, streamVars, termSize, ptySize,
                   nResizes, platform_system>>

\* The user resizes the window of the real terminal.
Resize(sz) ==
    /\ ppc \in {"idle", "relay"}
    /\ nResizes < MaxResizes
    /\ sz # termSize
    /\ termSize' = sz
    /\ nResizes' = nResizes + 1
    /\ UNCHANGED <<ppc, termAttrs, preAttrs, old_settings, captureVars,
                   ghostVars, exitStatus, exitCause, procVars, streamVars,
                   ptySize, platform_system>>

\* Mutant: the platform is looked at after the pseudo-terminal is opened.
RaiseUnsupported_AfterOpenpty ==
    /\ ppc' = "raised"
    /\ master_open' = TRUE
    /\ UNCHANGED <<termAttrs, preAttrs, old_settings, captureVars, ghostVars,
                   exitStatus, exitCause, command_found, child, waitStatus,
                   streamVars, termSize, ptySize, nResizes>>

\* "if not IS_UNIX: raise RuntimeError(...)"
RaiseUnsupported ==
    /\ ppc' = "raised"
    /\ UNCHANGED <<termAttrs, preAttrs, old_settings, captureVars, ghostVars,
                   exitStatus, exitCause, procVars, streamVars, termSize,
                   ptySize, nResizes>>

\* _sync_terminal_size: TIOCGWINSZ of the terminal, TIOCSWINSZ of the
\* pseudo-terminal.
sync_terminal_size == ptySize' = termSize

\* start() up to the loop: pty.openpty, os.fork (os.execvp in the child),
\* _sync_terminal_size, then tcgetattr and tty.setraw in _relay_loop.
Start(sys, cmd) ==
    /\ ppc = "idle"
    /\ platform_system' = sys
    /\ IF ~IS_UNIX(sys) THEN RaiseUnsupported
       ELSE /\ ppc' = "relay"
            /\ master_open' = TRUE
            /\ child' = "running"
            /\ command_found' = (cmd = "found")
            /\ sync_terminal_size
            /\ old_settings' = termAttrs
            /\ termAttrs' = "raw"
            /\ UNCHANGED <<preAttrs, captureVars, ghostVars, exitStatus,
                           exitCause, waitStatus, streamVars, termSize,
                           nResizes>>

\* The stdin branch of the loop: forward, then _process_input.
UserInput(data) ==
    /\ ppc = "relay"
    /\ command_found
    /\ nEvents < MaxEvents
    /\ fromUser' = fromUser \o data
    /\ toChild' = toChild \o Forward(data)
    /\ LET st == process_input(CaptureState, data, ptyNow)
           terminator == "CR" \in Range(data)
           ideal == Strip(StripControl(rawSince))
           line == typed \o SelectSeq(data, LAMBDA c : c # "CR")
       IN /\ SetCapture(st)
          /\ typed' = IF terminator THEN <<>> ELSE line
          /\ rawSince' = IF terminator /\ ideal # <<>> THEN <<>> ELSE rawSince
          /\ capturedAt' = IF terminator /\ ideal # <<>> THEN ptyNow
                           ELSE capturedAt
          /\ lastStep' =
               IF terminator
               THEN [kind |-> "boundary",
                     waiting |-> current_prompt # <<>>,
                     resp |-> ideal,
                     n |-> Len(st.emitted) - Len(emitted),
                     capturedAt |-> capturedAt,
                     typedLine |-> line,
                     newPrompt |-> st.current_prompt,
                     ex |-> NewlyEmitted(emitted, st.emitted),
                     effective |-> ideal # <<>>]
               ELSE lastStep
    /\ ptyNow' = ptyNow + 1
    /\ nEvents' = nEvents + 1
    /\ UNCHANGED <<ppc, termAttrs, preAttrs, old_settings, exitStatus,
                   exitCause, procVars, fromChild, toTerminal, termSize,
                   ptySize, nResizes, platform_system>>

\* The pseudo-terminal branch of the loop: forward, then _process_output.
ChildOutput(data) ==
    /\ ppc = "relay"
    /\ command_found
    /\ nEvents < MaxEvents
    /\ fromChild' = fromChild \o data
    /\ toTerminal' = toTerminal \o Forward(data)
    /\ SetCapture(process_output(CaptureState, data))
    /\ rawSince' = rawSince \o data
    /\ ptyNow' = ptyNow + 1
    /\ nEvents' = nEvents + 1
    /\ UNCHANGED <<ppc, termAttrs, preAttrs, old_settings, typed, capturedAt,
                   lastStep, exitStatus, exitCause, procVars, fromUser,
                   toChild, termSize, ptySize, nResizes, platform_system>>

\* Mutant: the pending pair is flushed as soon as the loop has ended.
RelayEnd_FlushFirst(cause, data) ==
    /\ ppc = "relay"
    /\ ppc' = "ended"
    /\ termAttrs' = RestoreAttrs(cause, old_settings, termAttrs)
    /\ exitCause' = cause
    /\ fromUser' = IF cause = "write_master_error" THEN fromUser \o data
                   ELSE fromUser
    /\ fromChild' = IF cause = "write_stdout_error" THEN fromChild \o data
                    ELSE fromChild
    /\ SetCapture(flush_pending(CaptureState))
    /\ UNCHANGED <<preAttrs, old_settings, ghostVars, exitStatus, procVars,
                   toTerminal, toChild, termSize, ptySize, nResizes,
                   platform_system>>

\* The loop ends and the finally block of _relay_loop restores the
\* terminal.  A write that raised had read its bytes and passed none on.
RelayEnd(cause, data) ==
    /\ ppc = "relay"
    /\ ppc' = "ended"
    /\ termAttrs' = RestoreAttrs(cause, old_settings, termAttrs)
    /\ exitCause' = cause
    /\ fromUser' = IF cause = "write_master_error" THEN fromUser \o data
                   ELSE fromUser
    /\ fromChild' = IF cause = "write_stdout_error" THEN fromChild \o data
                    ELSE fromChild
    /\ UNCHANGED <<preAttrs, old_settings, captureVars, ghostVars, exitStatus,
                   procVars, toTerminal, toChild, termSize, ptySize, nResizes,
                   platform_system>>

\* The finally block of start(): os.close(master_fd), then os.waitpid.
Reap(status) ==
    /\ ppc = "ended"
    /\ IF command_found
       THEN [cause |-> exitCause, status |-> status] \in ExitChoices
       ELSE status = ExecFailedStatus
    /\ ppc' = "reaped"
    /\ master_open' = FALSE
    /\ child' = "reaped"
    /\ waitStatus' = status
    /\ UNCHANGED <<termAttrs, preAttrs, old_settings, captureVars, ghostVars,
                   exitStatus, exitCause, command_found, streamVars, termSize,
                   ptySize, nResizes, platform_system>>

\* The rest of the finally block: _flush_pending, then the return of the
\* exit code.
Finish ==
    /\ ppc = "reaped"
    /\ ppc' = IF Propagates(exitCause) THEN "raised" ELSE "returned"
    /\ LET st == flush_pending(CaptureState)
       IN /\ SetCapture(st)
          /\ lastStep' = [kind |-> "exit",
                          waiting |-> current_prompt # <<>>,
                          resp |-> Strip(StripControl(rawSince)),
                          n |-> Len(st.emitted) - Len(emitted),
                          capturedAt |-> capturedAt,
                          typedLine |-> typed,
                          newPrompt |-> st.current_prompt,
                          ex |-> NewlyEmitted(emitted, st.emitted),
                          effective |-> FALSE]
    /\ exitStatus' = ExitCode(waitStatus)
    /\ UNCHANGED <<termAttrs, preAttrs, old_settings, ptyNow, typed, rawSince,
                   capturedAt, nEvents, exitCause, procVars, streamVars,
                   termSize, ptySize, nResizes, platform_system>>

\* What a call of on_exchange may do: wrap's callback prints, queues the
\* exchange, flushes and saves the records, and nothing in it or around
\* it handles an exception.
Outcomes == {"returns", "raises"}

\* _flush_pending with a callback that may raise: the exception leaves
\* _flush_pending at the call, before the prompt and the buffer are reset.
flush_pending_calling(st, outcome) ==
    IF st.current_prompt # <<>> /\ Strip(st.output_buffer) # <<>>
    THEN LET response == Strip(st.output_buffer)
         IN IF Width(response) > MinSignificant /\ outcome = "raises"
            THEN [st |-> [st EXCEPT
                            !.emitted =
                                Append(@, RawConversation(st.last_prompt_time,
                                                          st.current_prompt,
                                                          response))],
                  raised |-> TRUE]
            ELSE [st |-> flush_pending(st), raised |-> FALSE]
    ELSE [st |-> st, raised |-> FALSE]

\* _process_input with such a callback: "except Exception: pass" takes
\* the exception, and the three statements after the call are skipped.
process_input_calling(st, data, t, outcome) ==
    IF "CR" \in Range(data) /\ Strip(st.output_buffer) # <<>>
    THEN LET buf == st.output_buffer
             fl == flush_pending_calling(st, outcome)
         IN IF fl.raised THEN fl.st
            ELSE [fl.st EXCEPT !.current_prompt = Strip(buf),
                               !.last_prompt_time = t,
                               !.output_buffer = <<>>]
    ELSE st

\* The stdin branch of the loop when the callback may raise.
UserInputCalling(data, outcome) ==
    /\ ppc = "relay"
    /\ command_found
    /\ nEvents < MaxEvents
    /\ fromUser' = fromUser \o data
    /\ toChild' = toChild \o Forward(data)
    /\ SetCapture(process_input_calling(CaptureState, data, ptyNow, outcome))
    /\ ptyNow' = ptyNow + 1
    /\ nEvents' = nEvents + 1
    /\ UNCHANGED <<ppc, termAttrs, preAttrs, old_settings, typed, rawSince,
                   capturedAt, lastStep, exitStatus, exitCause, procVars,
                   fromChild, toTerminal, termSize, ptySize, nResizes,
                   platform_system>>

\* The end of the finally block of start() when the callback may raise:
\* the exception leaves _flush_pending and start(), and the return
\* statement after it is not reached.
FinishCalling(outcome) ==
    /\ ppc = "reaped"
    /\ LET fl == flush_pending_calling(CaptureState, outcome)
       IN /\ SetCapture(fl.st)
          /\ ppc' = IF fl.raised THEN "raised" ELSE "returned"
          /\ exitStatus' = IF fl.raised THEN exitStatus
                           ELSE ExitCode(waitStatus)
    /\ UNCHANGED <<termAttrs, preAttrs, old_settings, ghostVars, exitCause,
                   procVars, streamVars, termSize, ptySize, nResizes,
                   platform_system>>

InitPTY ==
    /\ ppc = "idle"
    /\ termAttrs = "cooked"
    /\ preAttrs = "cooked"
    /\ old_settings = "unset"
    /\ output_buffer = <<>>
    /\ current_prompt = <<>>
    /\ last_prompt_time = 0
    /\ emitted = <<>>
    /\ ptyNow = 1
    /\ typed = <<>>
    /\ rawSince = <<>>
    /\ capturedAt = 0
    /\ lastStep = NoStep
    /\ exitStatus = 0
    /\ exitCause = "none"
    /\ nEvents = 0
    /\ platform_system = "unset"
    /\ command_found = TRUE
    /\ master_open = FALSE
    /\ child = "none"
    /\ waitStatus = [exited |-> TRUE, code |-> 0]
    /\ termSize = "80x24"
    /\ ptySize = "none"
    /\ nResizes = 0
    /\ fromChild = <<>>
    /\ toTerminal = <<>>
    /\ fromUser = <<>>
    /\ toChild = <<>>

----------------------------------------------------------------------------
(* Specifications                                                          *)

Init ==
    InitParse /\ InitTitle /\ InitGit /\ InitMatcher /\ InitFlush /\ InitPTY

\* The engine used from one thread: flush runs to completion.
Next ==
    \/ (\E e \in ExchangeChoices :
            add_prompt(e.timestamp, e.prompt, e.response, e.context_files))
       /\ UNCHANGED <<parseVars, titleVars, gitVars, ptyVars>>
    \/ (\E c \in ChangeChoices :
            add_file_change(c.file_path, c.change_type, c.timestamp))
       /\ UNCHANGED <<parseVars, titleVars, gitVars, ptyVars>>
    \/ Tick /\ UNCHANGED <<parseVars, titleVars, gitVars, ptyVars>>
    \/ (\E cap \in Captures : flush(cap))
       /\ UNCHANGED <<parseVars, titleVars, gitVars, ptyVars>>

Spec == Init /\ [][Next]_vars

\* The engine used from one thread, with calls of flush that raise;
\* git_capture is absent or looks at a dirty repository.
FailingCaptures == {NoCapture, Capture(RepoDirty, RepoDirty)}
NextFailing ==
    \/ (\E e \in ExchangeChoices :
            add_prompt(e.timestamp, e.prompt, e.response, e.context_files))
       /\ UNCHANGED <<parseVars, titleVars, gitVars, ptyVars>>
    \/ (\E c \in ChangeChoices :
            add_file_change(c.file_path, c.change_type, c.timestamp))
       /\ UNCHANGED <<parseVars, titleVars, gitVars, ptyVars>>
    \/ Tick /\ UNCHANGED <<parseVars, titleVars, gitVars, ptyVars>>
    \/ (\E cap \in FailingCaptures : flush(cap))
       /\ UNCHANGED <<parseVars, titleVars, gitVars, ptyVars>>
    \/ (\E cap \in FailingCaptures, k \in 1..MaxExchanges :
            flush_raising(cap, k))
       /\ UNCHANGED <<parseVars, titleVars, gitVars, ptyVars>>

SpecFailing == Init /\ [][NextFailing]_vars

\* The engine with producers on other threads.
NextConc ==
    \/ (\E t \in ExchangeTimes : add_prompt(t, <<"the">>, <<"done">>, <<>>))
       /\ UNCHANGED <<parseVars, titleVars, gitVars, ptyVars>>
    \/ (\E t \in ChangeTimes : add_file_change(<<"f">>, "modified", t))
       /\ UNCHANGED <<parseVars, titleVars, gitVars, ptyVars>>
    \/ Tick /\ UNCHANGED <<parseVars, titleVars, gitVars, ptyVars>>
    \/ FlushBegin(NoCapture) /\ UNCHANGED <<parseVars, titleVars, gitVars, ptyVars>>
    \/ FlushIter /\ UNCHANGED <<parseVars, titleVars, gitVars, ptyVars>>
    \/ FlushClear /\ UNCHANGED <<parseVars, titleVars, gitVars, ptyVars>>
    \/ FlushPruneIter /\ UNCHANGED <<parseVars, titleVars, gitVars, ptyVars>>
    \/ FlushStore /\ UNCHANGED <<parseVars, titleVars, gitVars, ptyVars>>

SpecConc == Init /\ [][NextConc]_vars

NextPTY ==
    \/ (\E m \in TermModes : Stty(m))
       /\ UNCHANGED <<parseVars, titleVars, gitVars, matcherVars, flushVars>>
    \/ (\E sys \in Systems, cmd \in Commands : Start(sys, cmd))
       /\ UNCHANGED <<parseVars, titleVars, gitVars, matcherVars, flushVars>>
    \/ (\E d \in UserChunks : UserInput(d))
       /\ UNCHANGED <<parseVars, titleVars, gitVars, matcherVars, flushVars>>
    \/ (\E d \in ChildChunks(ReadTags[nEvents + 1]) : ChildOutput(d))
       /\ UNCHANGED <<parseVars, titleVars, gitVars, matcherVars, flushVars>>
    \/ (\E x \in EndChoices : RelayEnd(x.cause, x.data))
       /\ UNCHANGED <<parseVars, titleVars, gitVars, matcherVars, flushVars>>
    \/ (\E s \in ChildStatuses \cup {ExecFailedStatus} : Reap(s))
       /\ UNCHANGED <<parseVars, titleVars, gitVars, matcherVars, flushVars>>
    \/ Finish /\ UNCHANGED <<parseVars, titleVars, gitVars, matcherVars, flushVars>>

SpecPTY == Init /\ [][NextPTY]_vars

\* The proxy with a callback that may raise.
NextCalling ==
    \/ (\E sys \in Systems, cmd \in Commands : Start(sys, cmd))
       /\ UNCHANGED <<parseVars, titleVars, gitVars, matcherVars, flushVars>>
    \/ (\E d \in UserChunks, o \in Outcomes : UserInputCalling(d, o))
       /\ UNCHANGED <<parseVars, titleVars, gitVars, matcherVars, flushVars>>
    \/ (\E d \in ChildChunks(ReadTags[nEvents + 1]) : ChildOutput(d))
       /\ UNCHANGED <<parseVars, titleVars, gitVars, matcherVars, flushVars>>
    \/ (\E x \in EndChoices : RelayEnd(x.cause, x.data))
       /\ UNCHANGED <<parseVars, titleVars, gitVars, matcherVars, flushVars>>
    \/ (\E s \in ChildStatuses \cup {ExecFailedStatus} : Reap(s))
       /\ UNCHANGED <<parseVars, titleVars, gitVars, matcherVars, flushVars>>
    \/ (\E o \in Outcomes : FinishCalling(o))
       /\ UNCHANGED <<parseVars, titleVars, gitVars, matcherVars, flushVars>>

SpecCalling == Init /\ [][NextCalling]_vars

\* The proxy with a silent child and a silent user, while the window of
\* the real terminal is resized.
NextResize ==
    \/ (\E m \in TermModes : Stty(m))
       /\ UNCHANGED <<parseVars, titleVars, gitVars, matcherVars, flushVars>>
    \/ (\E sz \in Sizes : Resize(sz))
       /\ UNCHANGED <<parseVars, titleVars, gitVars, matcherVars, flushVars>>
    \/ (\E sys \in Systems, cmd \in Commands : Start(sys, cmd))
       /\ UNCHANGED <<parseVars, titleVars, gitVars, matcherVars, flushVars>>
    \/ (\E x \in EndChoices : RelayEnd(x.cause, x.data))
       /\ UNCHANGED <<parseVars, titleVars, gitVars, matcherVars, flushVars>>
    \/ (\E s \in ChildStatuses \cup {ExecFailedStatus} : Reap(s))
       /\ UNCHANGED <<parseVars, titleVars, gitVars, matcherVars, flushVars>>
    \/ Finish /\ UNCHANGED <<parseVars, titleVars, gitVars, matcherVars, flushVars>>

\* Every step of start() that can be taken is taken in the end.
SpecResize == Init /\ [][NextResize]_vars /\ WF_vars(NextResize)

\* The repository is prepared, then the capture is called on it, then
\* the engine uses the capture.
EngineIdle == nAdded = 0 /\ ~lastFlush.called
Preparing == gitCall.op = "none" /\ EngineIdle

NextGit ==
    \/ (Preparing /\ \E p \in Paths : RepoAdd(p))
       /\ UNCHANGED <<parseVars, titleVars, matcherVars, flushVars, ptyVars>>
    \/ (Preparing /\ \E p \in Paths : RepoWrite(p))
       /\ UNCHANGED <<parseVars, titleVars, matcherVars, flushVars, ptyVars>>
    \/ (Preparing /\ RepoCommit)
       /\ UNCHANGED <<parseVars, titleVars, matcherVars, flushVars, ptyVars>>
    \/ (EngineIdle
        /\ \E f \in PathFilters, k \in Failures : CallCombinedDiff(f, k))
       /\ UNCHANGED <<parseVars, titleVars, matcherVars, flushVars, ptyVars>>
    \/ (EngineIdle
        /\ \E op \in CaptureOps, k \in Failures : CallCapture(op, k))
       /\ UNCHANGED <<parseVars, titleVars, matcherVars, flushVars, ptyVars>>
    \/ add_prompt(0, <<"the">>, <<"done">>, <<>>)
       /\ UNCHANGED <<parseVars, titleVars, gitVars, ptyVars>>
    \/ (\E k \in Failures :
           flush(Capture(WithFailure(repo, k), WithFailure(repo, k))))
       /\ UNCHANGED <<parseVars, titleVars, gitVars, ptyVars>>

SpecGit == Init /\ [][NextGit]_vars

NextParse ==
    \/ (\E l \in DiffLines : AppendA(l))
       /\ UNCHANGED <<titleVars, gitVars, matcherVars, flushVars, ptyVars>>
    \/ (\E l \in DiffLines : AppendB(l))
       /\ UNCHANGED <<titleVars, gitVars, matcherVars, flushVars, ptyVars>>
    \/ ParseTexts /\ UNCHANGED <<titleVars, gitVars, matcherVars, flushVars, ptyVars>>

SpecParse == Init /\ [][NextParse]_vars

NextTitle ==
    \/ (\E piece \in TitlePieces : AppendPiece(piece))
       /\ UNCHANGED <<parseVars, gitVars, matcherVars, flushVars, ptyVars>>
    \/ DeriveTitle
       /\ UNCHANGED <<parseVars, gitVars, matcherVars, flushVars, ptyVars>>

SpecTitle == Init /\ [][NextTitle]_vars

----------------------------------------------------------------------------
(* Properties: correlation engine                                          *)

\* C1: flush returns exactly one record per exchange that was pending when
\* it was called, in arrival order, whatever the score: the i-th record
\* carries the timestamp, session, prompt and response of the i-th
\* pending exchange, also when that exchange scored 0 with no diffs.
C1_OneRecordPerPendingExchange ==
    lastFlush.called =>
        /\ Len(returned) = Len(lastFlush.pending)
        /\ \A i \in DOMAIN returned :
              LET e == lastFlush.pending[i]
              IN /\ returned[i].timestamp = e.timestamp
                 /\ returned[i].source.session_id = e.session_id
                 /\ returned[i].intent.raw_prompt = e.prompt
                 /\ returned[i].execution.ai_response = e.response

\* C1 witness: a flush of two exchanges, the second of which has no
\* candidate change, no diff and score 0, and still has its record.
C1_Witness ==
    /\ lastFlush.called
    /\ Len(lastFlush.pending) = 2
    /\ Len(returned) = 2
    /\ scores[1].n > 0
    /\ scores[2].n = 0
    /\ returned[2].execution.diffs = <<>>
    /\ find_changes_in_window(lastFlush.history,
                              lastFlush.pending[2].timestamp) = <<>>

\* C2: every record flush returns has a score field holding the score
\* computed for its exchange.
C2_RecordCarriesScore ==
    lastFlush.called =>
        \A i \in DOMAIN returned :
            /\ "score" \in DOMAIN returned[i]
            /\ returned[i].score = scores[i]

\* C3: with producers on other threads, once a flush has finished every
\* exchange ever added is still queued or was returned by a flush, no
\* exchange was returned twice, and every event newer than the prune
\* cutoff that was appended during the prune is in the history.
C3_FlushHasExclusiveAccess ==
    /\ fpc = "idle" =>
          \A id \in added :
              \/ \E i \in DOMAIN pending : pending[i].session_id = id
              \/ id \in Range(allReturned)
    /\ \A i, j \in DOMAIN allReturned :
          allReturned[i] = allReturned[j] => i = j
    /\ fpc = "idle" => duringPrune \subseteq Range(history)

----------------------------------------------------------------------------
(* Properties: terminal proxy                                              *)

\* C4: whichever way the relay ended (end of user input, end of child
\* output, I/O error, interrupt), after start() has returned the terminal
\* attributes are those it had before start() was called.
C4_TerminalRestored == ppc = "returned" => termAttrs = preAttrs

\* C4 witness: start() has returned after an interrupt, from a terminal
\* that was not in its default mode.
C4_Witness ==
    ppc = "returned" /\ exitCause = "interrupt" /\ preAttrs = "cbreak"

\* C5: at every boundary at which a prompt is captured the new pending
\* prompt is what the user typed since the last line terminator, and the
\* prompt of every emitted exchange consists of characters the user typed.
C5_PromptIsWhatUserTyped ==
    /\ (lastStep.kind = "boundary" /\ lastStep.effective) =>
           lastStep.newPrompt = lastStep.typedLine
    /\ \A i \in DOMAIN emitted : Range(emitted[i].prompt) \subseteq UserChars

C7_SignificanceRule ==
    (lastStep.kind \in {"boundary", "exit"} /\ lastStep.waiting) =>
        IF Width(lastStep.resp) > 20
        THEN /\ lastStep.n = 1
             /\ lastStep.ex[1].timestamp = lastStep.capturedAt
        ELSE lastStep.n = 0

\* C7 witness: the child exits with a prompt waiting and 25 characters
\* of response, and one exchange is emitted.
C7_Witness ==
    /\ lastStep.kind = "exit"
    /\ lastStep.waiting
    /\ Width(lastStep.resp) = 25
    /\ lastStep.n = 1

----------------------------------------------------------------------------
(* Properties: diff capture and parser                                     *)

\* C8: in a repository with no commit, get_combined_diff, with or without
\* a path filter, returns the parse of the staged text joined with the
\* unstaged text.
C8_ZeroCommitStagedAndUnstaged ==
    (gitCall.op = "get_combined_diff" /\ ~gitCall.repo.has_commits) =>
        gitResult = GitDiffCapture_parse_unified_diff(
                        JoinTexts(Lines(GitDiffCached(gitCall.repo,
                                                      gitCall.fnames)),
                                  Lines(GitDiffWorktree(gitCall.repo,
                                                        gitCall.fnames))))

\* The positions of the file-boundary markers of a text, in order.
MarkerIndexes(text) ==
    SelectSeq([i \in DOMAIN text |-> i], LAMBDA i : IsMarker(text[i]))

\* Every marker is followed by a hunk line before the next marker or the
\* end of the text.
EveryMarkerHasHunk(text) ==
    \A i \in DOMAIN text :
        IsMarker(text[i]) =>
            \E j \in (i + 1)..Len(text) :
                /\ IsHunkLine(text[j])
                /\ \A k \in (i + 1)..j : ~IsMarker(text[k])

\* Every marker names a post-image path (" b/<path>").
EveryMarkerHasPath(text) ==
    \A i \in DOMAIN text : IsMarker(text[i]) => ObserverPath(text[i]) # <<>>

\* A parse result has one entry per marker, in the markers' order.
OneEntryPerMarker(text, core, obs) ==
    LET ms == MarkerIndexes(text)
    IN /\ Len(core) = Len(ms)
       /\ Len(obs) = Len(ms)
       /\ \A k \in DOMAIN ms :
             /\ core[k].file_path = CorePath(text[ms[k]])
             /\ obs[k].file_path = ObserverPath(text[ms[k]])

\* C9 as stated: a text with N markers, each followed by a hunk line,
\* parses to N entries in marker order.
C9_OneEntryPerMarker ==
    (parsePhase = "parsed" /\ EveryMarkerHasHunk(textA)) =>
        OneEntryPerMarker(textA, parseOut.a, parseOut.oa)

\* C9 amended: a text with N markers, each naming a post-image path and
\* each followed by a hunk line, parses to N entries in marker order.
C9_OneEntryPerPathMarker ==
    (parsePhase = "parsed" /\ EveryMarkerHasHunk(textA)
        /\ EveryMarkerHasPath(textA)) =>
        OneEntryPerMarker(textA, parseOut.a, parseOut.oa)

\* C9 witness: two markers with a hunk line each gave two entries.
C9_Witness ==
    /\ parsePhase = "parsed"
    /\ EveryMarkerHasHunk(textA)
    /\ EveryMarkerHasPath(textA)
    /\ Len(MarkerIndexes(textA)) = 2
    /\ Len(parseOut.a) = 2
    /\ parseOut.a[1].file_path # parseOut.a[2].file_path

\* C10 as stated: the parse of two joined texts has as many entries as
\* the two parses together.
C10_CountsAdd ==
    parsePhase = "parsed" =>
        /\ Len(parseOut.ab) = Len(parseOut.a) + Len(parseOut.b)
        /\ Len(parseOut.oab) = Len(parseOut.oa) + Len(parseOut.ob)

\* No hunk line of the text comes before its first marker.
NoLeadingHunk(text) ==
    \A j \in DOMAIN text :
        IsHunkLine(text[j]) => \E i \in 1..(j - 1) : IsMarker(text[i])

\* C10 amended: when no hunk line of B precedes B's first marker, the
\* parse of A joined to B by a line break has as many entries as the
\* parses of A and of B together.
C10_CountsAddAtMarker ==
    (parsePhase = "parsed" /\ NoLeadingHunk(textB)) =>
        /\ Len(parseOut.ab) = Len(parseOut.a) + Len(parseOut.b)
        /\ Len(parseOut.oab) = Len(parseOut.oa) + Len(parseOut.ob)

\* C10 witness: A and B each parse to an entry, and A's last file is
\* closed by B's first marker.
C10_Witness ==
    /\ parsePhase = "parsed"
    /\ NoLeadingHunk(textB)
    /\ Len(parseOut.a) = 1
    /\ Len(parseOut.b) = 1
    /\ Len(parseOut.ab) = 2

\* The section a marker opens holds a hunk line before the next marker or
\* the end of the text.
SectionHasHunk(text, i) ==
    \E j \in (i + 1)..Len(text) :
        /\ IsHunkLine(text[j])
        /\ \A k \in (i + 1)..j : ~IsMarker(text[k])

\* The markers of a text whose section holds a hunk line.
SectionsWithHunk(text) ==
    SelectSeq(MarkerIndexes(text), LAMBDA i : SectionHasHunk(text, i))

\* No entry of a parse result comes from a section without a hunk line:
\* every entry holds a hunk line, and the entries are paired in order
\* with sections that hold one.
NoEntryWithoutHunk(text, result) ==
    /\ \A k \in DOMAIN result : result[k].hunk # <<>>
    /\ Len(result) <= Len(SectionsWithHunk(text))
    /\ (EveryMarkerHasPath(text) =>
          Len(result) = Len(SectionsWithHunk(text)))

\* C11: a file section with no hunk line (hunk header, added, removed or
\* context line) between its marker and the next marker or the end of the
\* input, such as a pure rename, produces no entry, whether a marker or
\* the end of the input closes it.
C11_NoEntryForEmptySection ==
    parsePhase = "parsed" =>
        LET joined == JoinTexts(Lines(textA), Lines(textB))
        IN /\ NoEntryWithoutHunk(textA, parseOut.a)
           /\ NoEntryWithoutHunk(textA, parseOut.oa)
           /\ NoEntryWithoutHunk(joined, parseOut.ab)
           /\ NoEntryWithoutHunk(joined, parseOut.oab)

\* C11 witness: a rename-only section gave no entry when the end of the
\* input closed it, and none when the marker of a following section,
\* which gave the only entry, closed it.
C11_Witness ==
    /\ parsePhase = "parsed"
    /\ Len(textA) = 2 /\ Len(textB) = 2
    /\ IsMarker(textA[1]) /\ textA[2] = <<"rename from">>
    /\ IsMarker(textB[1]) /\ IsHunkLine(textB[2])
    /\ EveryMarkerHasPath(textA) /\ EveryMarkerHasPath(textB)
    /\ parseOut.a = <<>>
    /\ Len(parseOut.ab) = 1
    /\ parseOut.ab[1].file_path = CorePath(textB[1])

----------------------------------------------------------------------------
(* Properties: windowing and diff acquisition                              *)

\* C12: for an exchange with timestamp t, a history entry is a candidate
\* change exactly when its timestamp c satisfies t <= c <= t + W, both
\* ends included and entries before t excluded; with W = 90 a change at
\* t + 89 is a candidate and one at t + 91 is not.
C12_WindowInclusive ==
    lastFlush.called =>
        \A i \in DOMAIN lastFlush.pending :
            LET t == lastFlush.pending[i].timestamp
            IN \A k \in DOMAIN lastFlush.history :
                  LET c == lastFlush.history[k]
                  IN (c \in Range(lastFlush.matched[i]))
                     <=> (t <= c.timestamp /\ c.timestamp <= t + 90)

\* C12 witness: an exchange at 0 was flushed over a history holding a
\* change at 89 and one at 91, and only the first was a candidate.
C12_Witness ==
    /\ lastFlush.called
    /\ Len(lastFlush.pending) >= 1
    /\ lastFlush.pending[1].timestamp = 0
    /\ {c.timestamp : c \in Range(lastFlush.history)} = {89, 91}
    /\ {c.timestamp : c \in Range(lastFlush.matched[1])} = {89}

\* One FileDiff per candidate event: its path and kind, an empty hunk.
SynthesizedFrom(diffs, events) ==
    /\ Len(diffs) = Len(events)
    /\ \A k \in DOMAIN events :
          diffs[k] = [file_path |-> events[k].file_path, hunk |-> <<>>,
                      change_type |-> events[k].change_type]

\* C13: the diffs attributed to a flushed exchange are the capture's
\* combined diff if it is non-empty, else its unstaged diff if that is
\* non-empty, else one synthesized FileDiff per candidate change, else
\* the empty list; so an exchange with a candidate change always has a
\* non-empty diff list.
C13_DiffAcquisitionOrder ==
    lastFlush.called =>
        \A i \in DOMAIN returned :
            LET d == returned[i].execution.diffs
                cap == lastFlush.cap
                m == lastFlush.matched[i]
            IN /\ IF cap.present /\ cap.combined # <<>>
                  THEN d = cap.combined
                  ELSE IF cap.present /\ cap.unstaged # <<>>
                  THEN d = cap.unstaged
                  ELSE IF m # <<>> THEN SynthesizedFrom(d, m)
                  ELSE d = <<>>
               /\ (m # <<>> => d # <<>>)

\* C13 witness: a capture was given, both its diffs were empty, and the
\* exchange got one empty-hunk diff for each of its two candidate changes.
C13_Witness ==
    /\ lastFlush.called
    /\ lastFlush.cap.present
    /\ lastFlush.cap.combined = <<>> /\ lastFlush.cap.unstaged = <<>>
    /\ Len(returned) >= 1
    /\ Len(lastFlush.matched[1]) = 2
    /\ Len(returned[1].execution.diffs) = 2
    /\ returned[1].execution.diffs[1].hunk = <<>>

----------------------------------------------------------------------------
(* Properties: the end-to-end example                                      *)

\* The last flush was the example's: the login exchange at 0 alone in the
\* queue, the one change of src/auth.js at 5, and a capture whose
\* combined diff is the example's diff.
LoginScenario ==
    /\ lastFlush.called
    /\ Len(lastFlush.pending) = 1
    /\ lastFlush.pending[1].timestamp = 0
    /\ lastFlush.pending[1].prompt = LoginPrompt
    /\ lastFlush.pending[1].response = LoginResponse
    /\ lastFlush.pending[1].context_files = << <<"auth.js">> >>
    /\ Len(lastFlush.history) = 1
    /\ lastFlush.history[1].file_path = <<"src/", "auth.js">>
    /\ lastFlush.history[1].change_type = "modified"
    /\ lastFlush.history[1].timestamp = 5
    /\ lastFlush.cap = CaptureOf(<<AuthDiff>>, <<>>)

LoginTitle ==
    <<"F", "i", "x", " ", "t", "h", "e", " ", "l", "o", "g", "i", "n", " ",
      "b", "u", "g">>
LoginReasoning ==
    <<"t", "h", "e", " ", "n", "u", "l", "l", " ", "c", "h", "e", "c", "k",
      " ", "w", "a", "s", " ", "b", "a", "c", "k", "w", "a", "r", "d", "s">>

\* C14: in the end-to-end example flush emits one record whose affected
\* files are [src/auth.js], whose title is "Fix the login bug", whose
\* reasoning excerpt is "the null check was backwards" and whose score is
\* above 0.7.
C14_EndToEnd ==
    LoginScenario =>
        /\ Len(returned) = 1
        /\ returned[1].execution.affected_files = {<<"src/", "auth.js">>}
        /\ returned[1].intent.clean_title = LoginTitle
        /\ returned[1].execution.reasoning = LoginReasoning
        /\ "score" \in DOMAIN returned[1]
        /\ 10 * returned[1].score.n > 7 * returned[1].score.d

----------------------------------------------------------------------------
(* Properties: the flush cycle                                             *)

PendingIds(pend) == [i \in DOMAIN pend |-> pend[i].session_id]

\* A step of the engine that adds nothing and does not advance the clock:
\* a call of flush.
IsFlushStep ==
    nAdded' = nAdded /\ nChanged' = nChanged /\ now' = now

\* C15: over any sequence of add and flush calls each added exchange is
\* returned by exactly one flush, the first one called after it was added:
\* the exchanges returned so far followed by the queued ones are the
\* added ones, each once and in the order of their addition; every flush
\* returns what was queued and leaves the queue empty; and no call leaves
\* the engine in a state that refuses the next add or flush.
C15_ReturnedByFirstFlushOnly ==
    /\ [](allReturned \o PendingIds(pending) = [i \in 1..nAdded |-> i])
    /\ [][IsFlushStep =>
             /\ pending' = <<>>
             /\ SessionIds(returned') = PendingIds(pending)
             /\ allReturned' = allReturned \o PendingIds(pending)]_vars
    /\ [](fpc = "idle")

\* C15 witness: a second cycle ran: the first exchange was returned by
\* one flush, then the second was added and returned alone by the next.
C15_Witness ==
    /\ lastFlush.called
    /\ allReturned = <<1, 2>>
    /\ PendingIds(lastFlush.pending) = <<2>>
    /\ SessionIds(returned) = <<2>>
    /\ pending = <<>>

\* C16: a flush that starts at time now leaves in the history exactly the
\* entries that were in it before the call and are strictly newer than
\* now - 2W, in their previous order, and every exchange of that flush
\* was windowed against the history as it was before the pruning.
C16_PruneAfterWindowing ==
    [][IsFlushStep =>
         /\ history' =
              SelectSeq(history,
                        LAMBDA c : c.timestamp
                                     > now - 2 * DEFAULT_WINDOW_SECONDS)
         /\ \A i \in DOMAIN pending :
               Range(lastFlush'.matched[i]) =
                 {c \in Range(history) :
                    /\ pending[i].timestamp <= c.timestamp
                    /\ c.timestamp
                         <= pending[i].timestamp + DEFAULT_WINDOW_SECONDS}
      ]_vars

\* C16 witness: a flush at 185 windowed the change at 5, exactly 2W old,
\* for the exchange at 0, then pruned it and kept the newer change.
C16_Witness ==
    /\ lastFlush.called
    /\ lastFlush.now = 185
    /\ Len(lastFlush.history) = 2
    /\ lastFlush.history[1].timestamp = 5
    /\ Len(lastFlush.pending) >= 1
    /\ lastFlush.pending[1].timestamp = 0
    /\ lastFlush.history[1] \in Range(lastFlush.matched[1])
    /\ history = <<lastFlush.history[2]>>

\* C17: in every reachable state, whatever the timestamps and the order
\* of the events added, the retained history is ordered by non-decreasing
\* timestamp.
C17_HistoryTimeOrdered ==
    \A i, j \in DOMAIN history :
        i < j => history[i].timestamp <= history[j].timestamp

\* C18: a flush called with an empty queue returns an empty list, makes
\* no call on the diff capture, leaves the queue empty, and changes the
\* history only by dropping the entries not newer than now - 2W.
C18_EmptyFlushOnlyPrunes ==
    [][(IsFlushStep /\ pending = <<>>) =>
         /\ returned' = <<>>
         /\ lastFlush'.calls = <<>>
         /\ pending' = <<>>
         /\ history' =
              SelectSeq(history,
                        LAMBDA c : c.timestamp
                                     > now - 2 * DEFAULT_WINDOW_SECONDS)
      ]_vars

\* C18 witness: a flush with an empty queue and a capture that has a diff
\* to give returned nothing, asked the capture nothing, and pruned the
\* old change out of a history of two.
C18_Witness ==
    /\ lastFlush.called
    /\ lastFlush.pending = <<>>
    /\ lastFlush.cap.present /\ lastFlush.cap.combined # <<>>
    /\ lastFlush.calls = <<>>
    /\ returned = <<>>
    /\ pending = <<>>
    /\ Len(lastFlush.history) = 2
    /\ history = <<lastFlush.history[2]>>

----------------------------------------------------------------------------
(* Properties: scoring                                                     *)

\* Comparison of two fractions with positive denominators.
RatLess(a, b) == a.n * b.d < b.n * a.d
RatLeq(a, b) == a.n * b.d <= b.n * a.d
RatEq(a, b) == a.n * b.d = b.n * a.d
InUnitInterval(a) == a.d > 0 /\ 0 <= a.n /\ a.n <= a.d

\* 0.5 t + 0.3 f + 0.2 k
WeightedSum(t, f, k) ==
    [n |-> 5 * t.n * f.d * k.d + 3 * f.n * t.d * k.d + 2 * k.n * t.d * f.d,
     d |-> 10 * t.d * f.d * k.d]

\* The signals of the i-th exchange of the last flush as the scoring rule
\* states them. Delta: the least distance to a candidate change.
StatedDelta(i) ==
    LET t == lastFlush.pending[i].timestamp
        ds == {IF c.timestamp >= t THEN c.timestamp - t ELSE t - c.timestamp :
                  c \in Range(lastFlush.matched[i])}
    IN CHOOSE x \in ds : \A y \in ds : x <= y

\* timeScore = 1 / (1 + Delta / 10), 0 without a candidate
StatedTimeScore(i) ==
    IF lastFlush.matched[i] = <<>> THEN [n |-> 0, d |-> 1]
    ELSE [n |-> 10, d |-> 10 + StatedDelta(i)]

\* The declared context files and the diff paths, by name only.
DeclaredNames(i) ==
    {f[Len(f)] : f \in {g \in Range(lastFlush.pending[i].context_files) :
                            g # <<>>}}
DiffNames(i) ==
    {p[Len(p)] : p \in {d.file_path : d \in
                            Range(returned[i].execution.diffs)} \ {<<>>}}

\* fileScore = |declared /\ diff names| / max(1, |declared|), 0 if either
\* set is empty
StatedFileScore(i) ==
    IF DeclaredNames(i) = {} \/ DiffNames(i) = {} THEN [n |-> 0, d |-> 1]
    ELSE [n |-> Cardinality(DeclaredNames(i) \cap DiffNames(i)),
          d |-> Cardinality(DeclaredNames(i))]

\* The identifier-shaped tokens, stop words removed, of the prompt and of
\* the hunks.
PromptTokens(i) ==
    (Range(lastFlush.pending[i].prompt) \cap IdentTokens) \ NoiseWords
HunkTokens(i) ==
    (UNION {UNION {Range(l) : l \in Range(d.hunk)} :
               d \in Range(returned[i].execution.diffs)}
        \cap IdentTokens) \ NoiseWords

\* keywordScore = |prompt /\ hunk tokens| / max(1, |prompt tokens|), 0 if
\* either side has none
StatedKeywordScore(i) ==
    IF PromptTokens(i) = {} \/ HunkTokens(i) = {} THEN [n |-> 0, d |-> 1]
    ELSE [n |-> Cardinality(PromptTokens(i) \cap HunkTokens(i)),
          d |-> Cardinality(PromptTokens(i))]

\* C19: the score computed in flush for each exchange equals
\* 0.5 timeScore + 0.3 fileScore + 0.2 keywordScore with every component
\* in [0, 1], so it lies in [0, 1]; it is 0 with neither diffs nor
\* candidate changes, and at most 0.5 with candidate changes but no
\* declared-file and no keyword overlap.
C19_ScoreIsWeightedSum ==
    lastFlush.called =>
        \A i \in DOMAIN scores :
            /\ InUnitInterval(StatedTimeScore(i))
            /\ InUnitInterval(StatedFileScore(i))
            /\ InUnitInterval(StatedKeywordScore(i))
            /\ scores[i].d > 0
            /\ RatEq(scores[i], WeightedSum(StatedTimeScore(i),
                                            StatedFileScore(i),
                                            StatedKeywordScore(i)))
            /\ InUnitInterval(scores[i])
            /\ (returned[i].execution.diffs = <<>>
                  /\ lastFlush.matched[i] = <<>>) => scores[i].n = 0
            /\ (lastFlush.matched[i] # <<>>
                  /\ DeclaredNames(i) \cap DiffNames(i) = {}
                  /\ PromptTokens(i) \cap HunkTokens(i) = {})
                 => RatLeq(scores[i], [n |-> 1, d |-> 2])

\* C19 witness: one flush scored the login exchange 19/30 on time and
\* file name, and a second exchange 1/10 on a keyword alone.
C19_Witness ==
    /\ lastFlush.called
    /\ Len(scores) = 2
    /\ RatEq(scores[1], [n |-> 19, d |-> 30])
    /\ RatEq(scores[2], [n |-> 1, d |-> 10])
    /\ StatedTimeScore(1).n > 0 /\ StatedFileScore(1).n > 0
    /\ StatedKeywordScore(2).n > 0

\* The time signal the computed score implies once the stated file and
\* keyword parts are taken off: 2 (score - 0.3 f - 0.2 k).
ImpliedTimeScore(i) ==
    LET s == scores[i]
        f == StatedFileScore(i)
        k == StatedKeywordScore(i)
    IN [n |-> 10 * s.n * f.d * k.d - 3 * f.n * s.d * k.d
                - 2 * k.n * s.d * f.d,
        d |-> 5 * s.d * f.d * k.d]

----------------------------------------------------------------------------
(* Properties: the end of start()                                          *)

\* C21: when the child exits with a prompt and its response pending, the
\* pair is flushed under the significance rule (emitted iff the response
\* is longer than 20 characters) after the child has been reaped and
\* before start() returns; nothing is emitted after start() has returned.
C21_FlushAtChildExit ==
    /\ [][(ppc' # "relay" /\ emitted' # emitted)
            => (ppc = "reaped" /\ child = "reaped" /\ ~master_open
                /\ ppc' = "returned")]_vars
    /\ [][ppc = "returned" => emitted' = emitted]_vars
    /\ []((lastStep.kind = "exit" /\ lastStep.waiting)
            => /\ ppc = "returned"
               /\ lastStep.n = (IF Width(lastStep.resp) > MinSignificant
                                THEN 1 ELSE 0)
               /\ lastStep.ex = SubSeq(emitted, Len(emitted) - lastStep.n + 1,
                                       Len(emitted)))

\* C21 witness: the child ended by itself with a prompt waiting and 21
\* characters of response; start() has returned and the pair was emitted
\* in its last step.
C21_Witness ==
    /\ ppc = "returned"
    /\ exitCause = "child_eof"
    /\ waitStatus.exited
    /\ lastStep.kind = "exit"
    /\ lastStep.waiting
    /\ Width(lastStep.resp) = 21
    /\ lastStep.n = 1

\* C22: an I/O error while relaying (a read or a write of the real
\* terminal or of the pseudo-terminal that raises) ends the loop with
\* the terminal mode restored, and start() goes on to reap the child and
\* return an exit status computed from the wait status as for any exit;
\* the error never reaches the caller.
C22_IOErrorEndsRelay ==
    exitCause \in IOErrorCauses =>
        /\ ppc \in {"ended", "reaped", "returned"}
        /\ termAttrs = preAttrs
        /\ ppc \in {"reaped", "returned"} => child = "reaped"
        /\ ppc = "returned" =>
              exitStatus = (IF waitStatus.exited THEN waitStatus.code ELSE 1)

\* C22 witness: a write to the real terminal raised after some relaying;
\* start() has returned 1 and the terminal is back in the mode it had.
C22_Witness ==
    /\ exitCause = "write_stdout_error"
    /\ ppc = "returned"
    /\ exitStatus = 1
    /\ preAttrs = "cbreak"
    /\ toTerminal # <<>>

\* C23: when the command cannot be started, start() ends at once with an
\* error outcome for its caller; it neither relays nor returns an exit
\* status.
C23_StartFailureSurfaced == ~command_found => ppc = "raised"

\* C24: on a platform without a pseudo-terminal facility start() fails
\* with an error in its first step: the terminal mode is not touched, no
\* pseudo-terminal is opened, no child is spawned, and the capture state
\* is what it was.
C24_UnsupportedPlatformFailsFirst ==
    /\ [][(ppc = "idle" /\ platform_system' = "Windows")
            => /\ ppc' = "raised"
               /\ UNCHANGED <<termAttrs, old_settings, master_open, child,
                              ptySize, captureVars, streamVars>>]_vars
    /\ [](platform_system = "Windows"
            => /\ ppc = "raised"
               /\ termAttrs = preAttrs
               /\ ~master_open
               /\ child = "none"
               /\ ptySize = "none")

\* C24 witness: start() has failed on such a platform, called from a
\* terminal that was not in its default mode.
C24_Witness ==
    /\ platform_system = "Windows"
    /\ ppc = "raised"
    /\ termAttrs = "cbreak"

\* C25: while the proxy runs, a resize of the real terminal is mirrored:
\* whenever the pseudo-terminal's size differs from the real terminal's
\* during the relay, it later equals it.
C25_ResizeMirrored ==
    [](((ppc = "relay" /\ ptySize # termSize)) => <>(ptySize = termSize))

----------------------------------------------------------------------------
(* Properties: the relay and what the callback receives                    *)

\* C26: the bytes written to the real terminal are exactly the bytes
\* read from the child, in order and unmodified, and the bytes written
\* to the child are exactly the bytes read from the user.
C26_RelayTransparent ==
    /\ toTerminal = fromChild
    /\ toChild = fromUser

\* s is t followed by one more read.
OneChunkAhead(s, t) ==
    /\ Len(s) > Len(t)
    /\ SubSeq(s, 1, Len(t)) = t
    /\ \/ SubSeq(s, Len(t) + 1, Len(s)) \in UserChunks
       \/ \E i \in DOMAIN ReadTags :
             SubSeq(s, Len(t) + 1, Len(s)) = <<ReadTags[i]>>

\* C26, amended: as long as no write has raised, the bytes written to
\* the real terminal are exactly the bytes read from the child and the
\* bytes written to the child exactly the bytes read from the user, in
\* order and unmodified; a write that raises ends the relay and the
\* bytes of that one read are not passed on.  Stripping touches the
\* capture buffer only.
C26_RelayTransparentUntilWriteFails ==
    /\ IF exitCause = "write_stdout_error"
       THEN OneChunkAhead(fromChild, toTerminal)
       ELSE toTerminal = fromChild
    /\ IF exitCause = "write_master_error"
       THEN OneChunkAhead(fromUser, toChild)
       ELSE toChild = fromUser
    /\ Range(output_buffer) \cap ControlTokens = {}

\* C26 witness: control sequences and typed bytes were relayed as read,
\* the capture buffer holds the text without the sequences, and the
\* relay then ended on a write to the real terminal that raised.
C26_Witness ==
    /\ exitCause = "write_stdout_error"
    /\ "CSI" \in Range(toTerminal)
    /\ "CR" \in Range(toChild)
    /\ output_buffer # <<>>
    /\ Len(fromChild) = Len(toTerminal) + 1

\* C27: every exchange delivered to the callback has a non-empty prompt
\* and a non-empty response, as RawConversation holds them after its
\* markup stripping and trimming.
C27_DeliveredExchangeNonEmpty ==
    \A i \in DOMAIN emitted :
        emitted[i].prompt # <<>> /\ emitted[i].response # <<>>

\* C28: start() mirrors the child's exit: a child that exited with code
\* k makes start() return k, a child ended by a signal makes it return a
\* non-zero status.
C28_ExitCodeMirrored ==
    ppc = "returned" =>
        IF waitStatus.exited THEN exitStatus = waitStatus.code
        ELSE exitStatus # 0

\* C28 witness: the child ended by itself with code 3 after some relaying
\* and start() returned 3.
C28_Witness ==
    /\ ppc = "returned"
    /\ exitCause = "child_eof"
    /\ waitStatus = [exited |-> TRUE, code |-> 3]
    /\ exitStatus = 3
    /\ fromChild # <<>>

----------------------------------------------------------------------------
(* Properties: failures of the repository layer and of the diff text       *)

\* C29: no capture operation (get_combined_diff, get_unstaged_diff,
\* get_staged_diff, get_dirty_files) ends with an exception; on a
\* failure of the repository layer it returns the empty list, and a
\* flush that uses the capture still returns one record for every
\* pending exchange.
C29_CaptureNeverThrows ==
    /\ ~gitRaised
    /\ (gitCall.op # "none" /\ gitCall.repo.error # "none")
         => gitResult = <<>>
    /\ (lastFlush.called /\ lastFlush.cap.present)
         => /\ ~lastFlush.cap.raised
            /\ Len(returned) = Len(lastFlush.pending)
            /\ lastFlush.cap.failure # "none"
                 => /\ lastFlush.cap.combined = <<>>
                    /\ lastFlush.cap.unstaged = <<>>

\* C29 witness: get_dirty_files met a failing git command in a repository
\* with changes and returned the empty list, and a flush with the capture
\* on that repository returned a record for each of two pending
\* exchanges.
C29_Witness ==
    /\ gitCall.op = "get_dirty_files"
    /\ gitCall.repo.error = "command_failed"
    /\ \E p \in Paths : gitCall.repo.unstaged[p] # "none"
    /\ gitResult = <<>>
    /\ lastFlush.called
    /\ lastFlush.cap.failure = "command_failed"
    /\ Len(lastFlush.pending) = 2
    /\ Len(returned) = 2

\* The path a parser takes from a marker.
PathOf(impl, line) ==
    IF impl = "core" THEN CorePath(line) ELSE ObserverPath(line)

\* The lines between the marker at i and the next marker or the end.
SectionLines(text, i) ==
    LET later == {j \in (i + 1)..Len(text) : IsMarker(text[j])}
        last == IF later = {} THEN Len(text)
                ELSE (CHOOSE j \in later : \A k \in later : j <= k) - 1
    IN SubSeq(text, i + 1, last)

\* The kind a line announces, "" if none.
KindOfLine(line) ==
    IF StartsWith(line, {"new file"}) THEN "added"
    ELSE IF StartsWith(line, {"deleted file"}) THEN "deleted"
    ELSE IF StartsWith(line, {"rename from", "rename to"}) THEN "renamed"
    ELSE ""

\* The kind of a section: that of its last kind line, else "modified".
SectionKind(lines) ==
    LET ks == {j \in DOMAIN lines : KindOfLine(lines[j]) # ""}
    IN IF ks = {} THEN "modified"
       ELSE KindOfLine(lines[CHOOSE j \in ks : \A k \in ks : k <= j])

\* What the sections of a text alone determine: for each marker that
\* names a path and whose section holds a hunk line, the path, the hunk
\* lines of the section and the kind of the section.
EntriesOfSections(impl, text) ==
    LET ms == SelectSeq(MarkerIndexes(text),
                        LAMBDA i : /\ PathOf(impl, text[i]) # <<>>
                                   /\ \E j \in DOMAIN SectionLines(text, i) :
                                         IsHunkLine(SectionLines(text, i)[j]))
    IN [k \in DOMAIN ms |->
           FileDiff(PathOf(impl, text[ms[k]]),
                    SelectSeq(SectionLines(text, ms[k]), IsHunkLine),
                    SectionKind(SectionLines(text, ms[k])))]

\* A line other than a marker at a place where no file section is open.
OrphanLines(impl, text) ==
    {j \in DOMAIN text :
        /\ ~IsMarker(text[j])
        /\ LET before == {i \in 1..(j - 1) : IsMarker(text[i])}
           IN \/ before = {}
              \/ PathOf(impl, text[CHOOSE i \in before :
                                      \A k \in before : k <= i]) = <<>>}

\* C30: for every text, well formed or not, each parser returns a list,
\* and the list is what the open file sections alone determine: a line
\* met while no section is open (before the first marker, or after a
\* marker that names no path) is in no entry and changes the kind of
\* none.
C30_LinesOutsideSectionsIgnored ==
    parsePhase = "parsed" =>
        LET joined == JoinTexts(Lines(textA), Lines(textB))
        IN /\ parseOut.a = EntriesOfSections("core", Lines(textA))
           /\ parseOut.oa = EntriesOfSections("observer", Lines(textA))
           /\ parseOut.ab = EntriesOfSections("core", joined)
           /\ parseOut.oab = EntriesOfSections("observer", joined)

\* C30 witness: a text that opens with a marker naming no path, then a
\* new-file line, then a marker with a path and one added line: the one
\* entry is the last section's and its kind is "modified".
C30_Witness ==
    /\ parsePhase = "parsed"
    /\ Len(textA) = 4
    /\ IsMarker(textA[1]) /\ PathOf("core", textA[1]) = <<>>
    /\ KindOfLine(textA[2]) = "added"
    /\ 2 \in OrphanLines("core", textA)
    /\ IsMarker(textA[3])
    /\ IsHunkLine(textA[4])
    /\ Len(parseOut.a) = 1
    /\ parseOut.a[1].change_type = "modified"
    /\ parseOut.a[1].hunk = <<textA[4]>>
    /\ parseOut.oa[1].change_type = "modified"

----------------------------------------------------------------------------
(* Properties: derived title                                               *)

\* The cleaned prompt as the description words it: wrapper markup
\* stripped, white space collapsed, one leading filler prefix trimmed,
\* first letter capitalised.
CleanedPrompt(text) ==
    LET bare == RemoveShortTags(
                    RemoveLiterals(StripWs(text),
                                   UserQueryTags \cup SystemReminderTags))
        spaced == StripWs(CollapseWs(bare))
        body == StripWs(RemoveFiller(spaced))
    IN IF body = <<>> THEN <<>> ELSE <<Upper(body[1])>> \o Tail(body)

Ellipsis == <<".", ".", ".">>

\* C31: the title has at most 80 characters; it is the first 77
\* characters of the cleaned prompt followed by "..." when the cleaned
\* prompt has more than 80 characters, and the cleaned prompt otherwise.
C31_TitleAtMost80 ==
    titlePhase = "derived" =>
        LET cleaned == CleanedPrompt(PromptText)
        IN /\ Len(titleOut) <= 80
           /\ titleOut = IF Len(cleaned) > 80
                         THEN SubSeq(cleaned, 1, 77) \o Ellipsis
                         ELSE cleaned

\* C31 witness: a prompt of two long words, a line break and a letter,
\* whose cleaned text has 83 characters: the title has 80 and ends with
\* the ellipsis.
C31_Witness ==
    /\ titlePhase = "derived"
    /\ titlePrompt = <<"w40", " ", "w40", "\n", "x">>
    /\ Len(CleanedPrompt(PromptText)) = 83
    /\ Len(titleOut) = 80
    /\ SubSeq(titleOut, 78, 80) = Ellipsis

----------------------------------------------------------------------------
(* Properties: the two parsers                                             *)

\* C32: the core parser and the observer's parser return the same list
\* for every diff text.
C32_ParsersEquivalent ==
    parsePhase = "parsed" =>
        /\ parseOut.a = parseOut.oa
        /\ parseOut.b = parseOut.ob
        /\ parseOut.ab = parseOut.oab

\* Every marker of the text is "diff --git a/<p> b/<p>" for some path p.
EveryMarkerWellFormed(text) ==
    \A i \in DOMAIN text :
        IsMarker(text[i]) => \E p \in MarkerPaths : text[i] = MarkerLine(p)

\* The post-image path <new> of a well-formed marker.
PostImagePath(line) == CHOOSE p \in MarkerPaths : line = MarkerLine(p)

\* C33: the record a marker "diff --git a/<old> b/<new>" opens has the
\* path <new>, whatever the path; seen on texts whose markers are all of
\* that form and all followed by a hunk line, so that the k-th entry is
\* the k-th marker's record.
C33_PathIsPostImage ==
    (parsePhase = "parsed" /\ EveryMarkerWellFormed(textA)
        /\ EveryMarkerHasHunk(textA)) =>
        LET ms == MarkerIndexes(textA)
        IN /\ Len(parseOut.a) = Len(ms)
           /\ Len(parseOut.oa) = Len(ms)
           /\ \A k \in DOMAIN ms :
                 /\ parseOut.a[k].file_path = PostImagePath(textA[ms[k]])
                 /\ parseOut.oa[k].file_path = PostImagePath(textA[ms[k]])

----------------------------------------------------------------------------
(* Properties: the engine across batches                                   *)

\* C34: an event added before a flush, lying in the window [t, t + W] of
\* an exchange that flush processes, is among the exchange's candidates
\* when the flush runs before c + 2W, whatever flushes ran since the
\* event was added.
C34_KeptAcrossBatches ==
    [][IsFlushStep =>
         \A i \in DOMAIN pending : \A c \in everChanged :
            LET t == pending[i].timestamp
            IN (/\ t <= c.timestamp
                /\ c.timestamp <= t + DEFAULT_WINDOW_SECONDS
                /\ now < c.timestamp + 2 * DEFAULT_WINDOW_SECONDS)
               => c \in Range(lastFlush'.matched[i])
      ]_vars

\* C34 witness: the change at 89 was added, then the change at 5; a
\* flush late enough pruned the latter and kept the former, and a later
\* flush at 185 or after gave it to the exchange at 0 as a candidate.
C34_Witness ==
    /\ lastFlush.called
    /\ lastFlush.now >= 185
    /\ \E c \in everChanged, d \in everChanged :
          /\ c.timestamp = 89 /\ c.seq = 1
          /\ d.timestamp = 5 /\ d.seq = 2
          /\ lastFlush.history = <<c>>
          /\ Len(lastFlush.pending) = 1
          /\ lastFlush.pending[1].timestamp = 0
          /\ c \in Range(lastFlush.matched[1])

\* What a capture gives flush: its combined diff, or its unstaged diff
\* when the combined one is empty.
CaptureDiffs(cap) ==
    IF cap.combined # <<>> THEN cap.combined ELSE cap.unstaged

\* C35: when flush is given a capture whose combined (or unstaged) diff
\* is not empty, every exchange of the batch gets that same diff list and
\* the same set of affected paths, whatever its timestamp and whether or
\* not an event lies in its window.
C35_BatchSharesCaptureDiffs ==
    (lastFlush.called /\ lastFlush.cap.present
        /\ CaptureDiffs(lastFlush.cap) # <<>>) =>
        /\ Len(returned) = Len(lastFlush.pending)
        /\ \A i \in DOMAIN returned :
              /\ returned[i].execution.diffs = CaptureDiffs(lastFlush.cap)
              /\ \A j \in DOMAIN returned :
                    /\ returned[i].execution.diffs
                         = returned[j].execution.diffs
                    /\ returned[i].execution.affected_files
                         = returned[j].execution.affected_files

\* C35 witness: a batch of two exchanges, at 0 and at 80, flushed with a
\* capture holding a diff; an event lay in the window of the first only,
\* and both got the capture's diff list.
C35_Witness ==
    /\ lastFlush.called /\ lastFlush.cap.present
    /\ CaptureDiffs(lastFlush.cap) # <<>>
    /\ Len(returned) = 2
    /\ {lastFlush.pending[1].timestamp, lastFlush.pending[2].timestamp}
         = {0, 80}
    /\ \E i, j \in 1..2 :
          lastFlush.matched[i] # <<>> /\ lastFlush.matched[j] = <<>>
    /\ returned[1].execution.diffs = returned[2].execution.diffs
    /\ returned[1].execution.diffs # <<>>

----------------------------------------------------------------------------
(* Properties: the exchange callback                                       *)

\* C36: each captured prompt is passed to the exchange callback at most
\* once, also when the callback raises: no two of the exchanges passed to
\* it carry the same capture time.
C36_PromptDeliveredOnce ==
    \A i, j \in DOMAIN emitted :
        i # j => emitted[i].timestamp # emitted[j].timestamp

\* The bytes a step of the relay read from the user and passed on.
UserBytesRead == SubSeq(fromUser', Len(fromUser) + 1, Len(fromUser'))

\* C37: user input leaves the capture state (buffer, pending prompt, its
\* capture time, exchanges emitted) as it was when it holds no line
\* terminator, and also when it holds one but the child output since
\* the last boundary is blank once cleaned.
C37_NonBoundaryInputIsInert ==
    [][(ppc = "relay" /\ ppc' = "relay" /\ fromUser' # fromUser
         /\ (\/ "CR" \notin Range(UserBytesRead)
             \/ Strip(StripControl(rawSince)) = <<>>))
        => UNCHANGED <<output_buffer, current_prompt, last_prompt_time,
                       emitted>>
      ]_vars

\* C37 witness: with a prompt pending and nothing received since, the
\* user pressed the terminator; output that came after it is gathered
\* for the same prompt, captured at the same time.
C37_Witness ==
    /\ ppc = "relay"
    /\ lastStep.kind = "boundary"
    /\ lastStep.waiting /\ ~lastStep.effective
    /\ lastStep.resp = <<>>
    /\ current_prompt # <<>>
    /\ last_prompt_time = lastStep.capturedAt
    /\ Strip(output_buffer) # <<>>
    /\ emitted = <<>>

\* C38: a flush that raises while building a record leaves the queue and
\* the history as they were and returns nothing; every exchange added is,
\* at any time, either returned once or still queued, in the order of
\* addition; and a flush that completes returns all that is queued.
C38_FailedFlushDropsNothing ==
    /\ [][lastFailure' # lastFailure =>
            /\ pending' = pending
            /\ history' = history
            /\ allReturned' = allReturned]_vars
    /\ [](allReturned \o PendingIds(pending) = [i \in 1..nAdded |-> i])
    /\ [][(IsFlushStep /\ lastFailure' = lastFailure) =>
            /\ SessionIds(returned') = PendingIds(pending)
            /\ pending' = <<>>]_vars

\* C38 witness: at 185 or later a flush over two queued exchanges raised,
\* with a change in the history old enough to be pruned; the next flush
\* found the same queue and the same history, returned both exchanges
\* and pruned.
C38_Witness ==
    /\ lastFailure.n >= 1
    /\ lastFailure.now >= 185
    /\ Len(lastFailure.pending) = 2
    /\ \E c \in Range(lastFailure.history) :
          c.timestamp = 5 /\ c \notin Range(history)
    /\ lastFlush.pending = lastFailure.pending
    /\ lastFlush.history = lastFailure.history
    /\ Len(lastFlush.matched) = 2
    /\ SessionIds(returned) = <<1, 2>>
    /\ allReturned = <<1, 2>>
    /\ pending = <<>>

\* C39: add_prompt appends exactly one entry at the tail of the queue and
\* leaves the history as it was; add_file_change appends exactly one entry
\* at the tail of the history and leaves the queue as it was; after a
\* flush the history is the old history with some entries left out, the
\* rest in their old order.
C39_FrameConditions ==
    [][/\ nAdded' = nAdded + 1 =>
            /\ Len(pending') = Len(pending) + 1
            /\ SubSeq(pending', 1, Len(pending)) = pending
            /\ pending'[Len(pending')].session_id = nAdded'
            /\ history' = history
       /\ nChanged' = nChanged + 1 =>
            /\ Len(history') = Len(history) + 1
            /\ SubSeq(history', 1, Len(history)) = history
            /\ history'[Len(history')].seq = nChanged'
            /\ pending' = pending
       /\ IsFlushStep =>
            history' = SelectSeq(history, LAMBDA c : c \in Range(history'))
      ]_vars

\* C39 witness: two exchanges and two events were added, each at the
\* tail, and a flush over both pruned the older event and kept the newer.
C39_Witness ==
    /\ nAdded = 2
    /\ nChanged = 2
    /\ Len(lastFlush.matched) = 2
    /\ PendingIds(lastFlush.pending) = <<1, 2>>
    /\ Len(lastFlush.history) = 2
    /\ lastFlush.history[1].seq = 1
    /\ lastFlush.history[2].seq = 2
    /\ history = <<lastFlush.history[2]>>

=============================================================================
